---- MODULE Spec2Model ----
(***************************************************************************)
(* Model of the editor-core crate of typst-studio: the text Buffer         *)
(* (crates/editor-core/src/buffer.rs) and its UndoHistory                  *)
(* (crates/editor-core/src/operations.rs).                                 *)
(*                                                                         *)
(* Text is a sequence of scalar values.  The modelled alphabet is          *)
(*   "a"  U+0061, one UTF-8 byte                                           *)
(*   "E"  U+00E9 (e acute, precomposed), two UTF-8 bytes                   *)
(*   "N"  U+000A line feed, one UTF-8 byte                                 *)
(*   "R"  U+000D carriage return, one UTF-8 byte                           *)
(* The bidi-text crate (crates/bidi-text/src) is modelled over three more   *)
(* scalars:                                                                *)
(*   "H"  U+05D0 (Hebrew alef), two UTF-8 bytes, bidi class R              *)
(*   " "  U+0020 space, bidi class WS                                      *)
(*   "."  U+002E full stop, neither alphanumeric nor whitespace            *)
(* Every scalar of this alphabet is its own extended grapheme cluster,     *)
(* except that a carriage return and the line feed after it form one.      *)
(* Character indices and columns are 0-based as in the source; TLA+        *)
(* sequences are 1-based.                                                  *)
(***************************************************************************)
EXTENDS Integers, Sequences, FiniteSets, TLC

VARIABLES
    rope,            \* Buffer.rope: the text
    version,         \* Buffer.version
    dirty,           \* Buffer.dirty
    read_only,       \* Buffer.read_only
    undo_stack,      \* UndoHistory.undo_stack
    redo_stack,      \* UndoHistory.redo_stack
    current_group,   \* UndoHistory.current_group: <<>> is None, <<g>> is Some(g)
    max_operations,  \* UndoHistory.max_operations
    now,             \* the system clock read by current_timestamp(), in ms
    next_id,         \* identity of the next EditOperation value constructed
    result,          \* the latest API call and what it returned
    primary,         \* SelectionSet.primary
    selections,      \* SelectionSet.selections
    paragraph,       \* BidiParagraph.text, BidiInfo.text
    base_direction,  \* BidiInfo.base_direction
    logical_pos,     \* the cursor of a paragraph, as passed to move_visual
    lines,           \* the lines passed to move_vertical
    text_position,   \* the TextPosition of the cursor in lines, with its
                     \* sticky column
    finder_graphemes,\* WordBoundaryFinder.graphemes
    finder_boundaries,\* WordBoundaryFinder.boundaries
    content_height,  \* ScrollBar.content_height, in tenths of a pixel
    viewport_height, \* ScrollBar.viewport_height, in tenths of a pixel
    scroll_position, \* ScrollBar.scroll_position, in tenths of a pixel
    dragging,        \* ScrollBar.dragging
    cache,           \* GlyphCache.cache: GlyphKey -> size of the CachedGlyph
    max_size,        \* GlyphCache.max_size
    current_size,    \* GlyphCache.current_size
    access_order     \* GlyphCache.access_order, most recent last

vars == <<rope, version, dirty, read_only, undo_stack, redo_stack, current_group,
          max_operations, now, next_id, result, primary, selections,
          paragraph, base_direction, logical_pos, lines, text_position,
          finder_graphemes, finder_boundaries, content_height, viewport_height,
          scroll_position, dragging, cache, max_size, current_size,
          access_order>>

selvars == <<primary, selections>>
bidivars == <<paragraph, base_direction, logical_pos>>
linevars == <<lines, text_position>>
wordvars == <<finder_graphemes, finder_boundaries>>
scrollvars == <<content_height, viewport_height, scroll_position, dragging>>
cachevars == <<cache, max_size, current_size, access_order>>
uivars == <<wordvars, scrollvars, cachevars>>

bufvars == <<rope, version, dirty, read_only>>
histvars == <<undo_stack, redo_stack, current_group, max_operations>>

(***************************************************************************)
(* Bounds of the model.                                                    *)
(***************************************************************************)
MaxLine == 1
MaxColumn == 2
MaxEdits == 2
MaxVersion == 4
MaxLimit == 2
MaxRecords == 3
MaxText == 3
MaxInserted == 2
MaxSelections == 3
MaxSelColumn == 1
MaxParagraph == 3
MaxLines == 3
MaxLineLen == 2
MaxTyped == 4

(***************************************************************************)
(* Program constants.                                                      *)
(***************************************************************************)
MergeWindow == 1000
DefaultMaxOperations == 1000

Chars == {"a", "E", "N", "R"}

Utf8Len(c) == IF c \in {"E", "H"} THEN 2 ELSE 1

RECURSIVE ByteLen(_)
ByteLen(s) == IF s = <<>> THEN 0 ELSE Utf8Len(Head(s)) + ByteLen(Tail(s))

Position_new(l, c) == [line |-> l, column |-> c]

(***************************************************************************)
(* ropey::Rope line indexing.  The line breaks of the alphabet are LF, CR   *)
(* and CR LF; Breaks(r) holds the index of the last character of each.     *)
(***************************************************************************)
Breaks(r) ==
    {i \in 1..Len(r) :
        \/ r[i] = "N"
        \/ r[i] = "R" /\ (i = Len(r) \/ r[i + 1] # "N")}

len_lines(r) == Cardinality(Breaks(r)) + 1

len_chars(r) == Len(r)

\* char index of the first character of line l, for l < len_lines(r)
line_to_char(r, l) ==
    IF l = 0 THEN 0
    ELSE CHOOSE i \in Breaks(r) : Cardinality({j \in Breaks(r) : j <= i}) = l

\* the text of line l including its line break, for l < len_lines(r)
rope_line(r, l) ==
    LET from == line_to_char(r, l)
        to == IF l + 1 < len_lines(r) THEN line_to_char(r, l + 1) ELSE Len(r)
    IN SubSeq(r, from + 1, to)

rope_insert(r, idx, text) == SubSeq(r, 1, idx) \o text \o SubSeq(r, idx + 1, Len(r))

rope_remove(r, from, to) == SubSeq(r, 1, from) \o SubSeq(r, to + 1, Len(r))

rope_slice(r, from, to) == SubSeq(r, from + 1, to)

\* Rope::char_to_line: the line holding the character of index idx; an index
\* between a CR and its LF is on the line those two end
char_to_line(r, idx) == Cardinality({i \in Breaks(r) : i <= idx})

(***************************************************************************)
(* unicode_segmentation graphemes(true) and the str helpers the buffer     *)
(* uses.                                                                   *)
(***************************************************************************)
RECURSIVE graphemes(_)
graphemes(s) ==
    IF s = <<>> THEN <<>>
    ELSE IF Len(s) >= 2 /\ s[1] = "R" /\ s[2] = "N"
    THEN <<SubSeq(s, 1, 2)>> \o graphemes(SubSeq(s, 3, Len(s)))
    ELSE <<SubSeq(s, 1, 1)>> \o graphemes(Tail(s))

RECURSIVE SumChars(_)
SumChars(gs) == IF gs = <<>> THEN 0 ELSE Len(Head(gs)) + SumChars(Tail(gs))

LineFeeds(text) == {i \in 1..Len(text) : text[i] = "N"}

\* text.matches('\n').count()
CountBreaks(text) == Cardinality(LineFeeds(text))

\* text.lines().last().unwrap_or(""): lines() splits at line feeds, yields no
\* empty final line after a trailing line feed, and strips from a line the
\* carriage return that its line feed follows
LastLine(text) ==
    LET ended == text # <<>> /\ text[Len(text)] = "N"
        body == IF ended THEN SubSeq(text, 1, Len(text) - 1) ELSE text
        from == IF LineFeeds(body) = {} THEN 0
                ELSE CHOOSE i \in LineFeeds(body) : \A j \in LineFeeds(body) : j <= i
        piece == SubSeq(body, from + 1, Len(body))
    IN IF ended /\ piece # <<>> /\ piece[Len(piece)] = "R"
       THEN SubSeq(piece, 1, Len(piece) - 1)
       ELSE piece

(***************************************************************************)
(* Buffer::position_to_char_idx and Buffer::char_idx_to_position.  -1      *)
(* stands for Err(InvalidPosition) of the former, <<>> of the latter.      *)
(***************************************************************************)
InvalidIdx == -1

position_to_char_idx(r, pos) ==
    IF pos.line >= len_lines(r) THEN InvalidIdx
    ELSE LET gs == graphemes(rope_line(r, pos.line))
         IN IF pos.column > Len(gs) THEN InvalidIdx
            ELSE line_to_char(r, pos.line) + SumChars(SubSeq(gs, 1, pos.column))

\* the loop of char_idx_to_position over the graphemes gs still to visit
RECURSIVE CountColumns(_, _, _, _)
CountColumns(gs, char_offset, chars_counted, column) ==
    IF gs = <<>> \/ chars_counted >= char_offset THEN column
    ELSE CountColumns(Tail(gs), char_offset, chars_counted + Len(Head(gs)), column + 1)

char_idx_to_position(r, idx) ==
    IF idx > len_chars(r) THEN <<>>
    ELSE LET line == char_to_line(r, idx)
             line_start == line_to_char(r, line)
             char_offset == idx - line_start
             gs == graphemes(rope_line(r, line))
         IN <<Position_new(line, CountColumns(gs, char_offset, 0, 0))>>

\* the cursor position computed by Buffer::insert and Buffer::replace
CursorAfter(pos, text) ==
    IF CountBreaks(text) > 0
    THEN Position_new(pos.line + CountBreaks(text), ByteLen(LastLine(text)))
    ELSE Position_new(pos.line, pos.column + ByteLen(text))

\* the end of the inserted span computed by Buffer::undo
UndoEndPos(start, text) ==
    IF CountBreaks(text) > 0
    THEN Position_new(start.line + CountBreaks(text), ByteLen(LastLine(text)))
    ELSE Position_new(start.line, start.column + ByteLen(text))

(***************************************************************************)
(* EditOperation.  Option values are sequences of length 0 (None) or 1     *)
(* (Some).  obs is not a field of the source: it observes the recording    *)
(* of the operation and no operation of the program reads it.              *)
(*   obs.id      identity of the constructed value (tells apart two        *)
(*               operations that are equal field by field)                 *)
(*   obs.pre     the buffer text before the operation was applied          *)
(*   obs.post    the buffer text after the operation was applied           *)
(*   obs.ver     the buffer Version after the operation was applied        *)
(*   obs.parts   the operations as they were constructed: this one, then   *)
(*               each one merged into it (start, inserted text, timestamp) *)
(***************************************************************************)
Observed(id, pre, post, ver) ==
    [id |-> id, pre |-> pre, post |-> post, ver |-> ver, parts |-> <<>>]

Part(obs, start, text, ts) ==
    [obs EXCEPT !.parts = <<[start |-> start, text |-> text, timestamp |-> ts]>>]

EditOperation_insert(pos, text, cursor_after, ts, obs) ==
    [op_type |-> "Insert", start |-> pos, end |-> <<>>,
     inserted_text |-> <<text>>, deleted_text |-> <<>>,
     cursor_before |-> pos, cursor_after |-> cursor_after,
     timestamp |-> ts, obs |-> Part(obs, pos, text, ts)]

EditOperation_delete(start, end, deleted, cursor_after, ts, obs) ==
    [op_type |-> "Delete", start |-> start, end |-> <<end>>,
     inserted_text |-> <<>>, deleted_text |-> <<deleted>>,
     cursor_before |-> start, cursor_after |-> cursor_after,
     timestamp |-> ts, obs |-> Part(obs, start, <<>>, ts)]

EditOperation_replace(start, end, deleted, inserted, cursor_after, ts, obs) ==
    [op_type |-> "Replace", start |-> start, end |-> <<end>>,
     inserted_text |-> <<inserted>>, deleted_text |-> <<deleted>>,
     cursor_before |-> start, cursor_after |-> cursor_after,
     timestamp |-> ts, obs |-> Part(obs, start, inserted, ts)]

\* u64::saturating_sub
saturating_sub(a, b) == IF a >= b THEN a - b ELSE 0

\* can_merge_with with the window test written `>= 1000`
can_merge_with_Exclusive(self, other) ==
    IF self.op_type # "Insert" \/ other.op_type # "Insert" THEN FALSE
    ELSE IF saturating_sub(other.timestamp, self.timestamp) >= MergeWindow THEN FALSE
    ELSE self.cursor_after = other.start

\* EditOperation::can_merge_with: self is the recorded operation, other the new one
can_merge_with(self, other) ==
    IF self.op_type # "Insert" \/ other.op_type # "Insert" THEN FALSE
    ELSE IF saturating_sub(other.timestamp, self.timestamp) > MergeWindow THEN FALSE
    ELSE self.cursor_after = other.start

\* EditOperation::merge without `self.timestamp = other.timestamp`
merge_KeepStamp(self, other) ==
    IF self.inserted_text # <<>> /\ other.inserted_text # <<>>
    THEN [self EXCEPT !.inserted_text = <<self.inserted_text[1] \o other.inserted_text[1]>>,
                      !.cursor_after = other.cursor_after,
                      !.obs = [@ EXCEPT !.post = other.obs.post,
                                        !.ver = other.obs.ver,
                                        !.parts = @ \o other.obs.parts]]
    ELSE self

\* EditOperation::merge
merge(self, other) ==
    IF self.inserted_text # <<>> /\ other.inserted_text # <<>>
    THEN [self EXCEPT !.inserted_text = <<self.inserted_text[1] \o other.inserted_text[1]>>,
                      !.cursor_after = other.cursor_after,
                      !.timestamp = other.timestamp,
                      !.obs = [@ EXCEPT !.post = other.obs.post,
                                        !.ver = other.obs.ver,
                                        !.parts = @ \o other.obs.parts]]
    ELSE self

(***************************************************************************)
(* OperationGroup                                                          *)
(***************************************************************************)
OperationGroup_new(operation) ==
    [operations |-> <<operation>>, timestamp |-> operation.timestamp]

add_operation(group, operation) ==
    [operations |-> Append(group.operations, operation), timestamp |-> operation.timestamp]

group_can_merge_with(group, operation) ==
    IF group.operations # <<>>
    THEN can_merge_with(group.operations[Len(group.operations)], operation)
    ELSE FALSE

(***************************************************************************)
(* UndoHistory, as a record h of its four fields.                          *)
(***************************************************************************)
History == [undo_stack |-> undo_stack, redo_stack |-> redo_stack,
            current_group |-> current_group, max_operations |-> max_operations]

UndoHistory_with_limits(limit) ==
    [undo_stack |-> <<>>, redo_stack |-> <<>>, current_group |-> <<>>,
     max_operations |-> limit]

UndoHistory_new == UndoHistory_with_limits(DefaultMaxOperations)

\* while undo_stack.len() > max_operations { undo_stack.remove(0) }
enforce_limits(h) ==
    LET n == Len(h.undo_stack)
    IN IF n > h.max_operations
       THEN [h EXCEPT !.undo_stack = SubSeq(h.undo_stack, n - h.max_operations + 1, n)]
       ELSE h

\* does record_operation take its merge branch?
Merges(h, operation) ==
    /\ h.current_group # <<>>
    /\ group_can_merge_with(h.current_group[1], operation)

\* record_operation without `self.redo_stack.clear()`
record_operation_KeepRedo(h, operation) ==
    IF Merges(h, operation)
    THEN LET group == h.current_group[1]
             n == Len(group.operations)
         IN [h EXCEPT !.current_group =
                <<[group EXCEPT !.operations[n] = merge(group.operations[n], operation)]>>]
    ELSE LET finished == IF h.current_group # <<>>
                         THEN Append(h.undo_stack, h.current_group[1])
                         ELSE h.undo_stack
         IN enforce_limits([h EXCEPT
                !.undo_stack = finished,
                !.current_group = <<OperationGroup_new(operation)>>])

\* record_operation pushing a clone of the open group instead of taking it: the
\* group stays open and the new operation is added to it
record_operation_NoTake(h, operation) ==
    LET cleared == [h EXCEPT !.redo_stack = <<>>]
    IN IF Merges(h, operation)
       THEN LET group == h.current_group[1]
                n == Len(group.operations)
            IN [cleared EXCEPT !.current_group =
                   <<[group EXCEPT !.operations[n] = merge(group.operations[n], operation)]>>]
       ELSE IF h.current_group # <<>>
       THEN enforce_limits([cleared EXCEPT
                !.undo_stack = Append(h.undo_stack, h.current_group[1]),
                !.current_group = <<add_operation(h.current_group[1], operation)>>])
       ELSE enforce_limits([cleared EXCEPT
                !.current_group = <<OperationGroup_new(operation)>>])

record_operation(h, operation) ==
    LET cleared == [h EXCEPT !.redo_stack = <<>>]
    IN IF Merges(h, operation)
       THEN LET group == h.current_group[1]
                n == Len(group.operations)
            IN [cleared EXCEPT !.current_group =
                   <<[group EXCEPT !.operations[n] = merge(group.operations[n], operation)]>>]
       ELSE LET finished == IF h.current_group # <<>>
                            THEN Append(h.undo_stack, h.current_group[1])
                            ELSE h.undo_stack
            IN enforce_limits([cleared EXCEPT
                   !.undo_stack = finished,
                   !.current_group = <<OperationGroup_new(operation)>>])

create_boundary(h) ==
    IF h.current_group # <<>>
    THEN [h EXCEPT !.undo_stack = Append(h.undo_stack, h.current_group[1]),
                   !.current_group = <<>>]
    ELSE h

\* UndoHistory::undo: the history afterwards and the returned Option<OperationGroup>
UndoHistory_undo(h) ==
    LET b == create_boundary(h)
        n == Len(b.undo_stack)
    IN IF n > 0
       THEN [h |-> [b EXCEPT !.undo_stack = SubSeq(b.undo_stack, 1, n - 1),
                             !.redo_stack = Append(b.redo_stack, b.undo_stack[n])],
             group |-> <<b.undo_stack[n]>>]
       ELSE [h |-> b, group |-> <<>>]

\* UndoHistory::redo reading the top of redo_stack without popping it
UndoHistory_redo_Peek(h) ==
    LET n == Len(h.redo_stack)
    IN IF n > 0
       THEN [h |-> [h EXCEPT !.undo_stack = Append(h.undo_stack, h.redo_stack[n])],
             group |-> <<h.redo_stack[n]>>]
       ELSE [h |-> h, group |-> <<>>]

\* UndoHistory::redo
UndoHistory_redo(h) ==
    LET n == Len(h.redo_stack)
    IN IF n > 0
       THEN [h |-> [h EXCEPT !.redo_stack = SubSeq(h.redo_stack, 1, n - 1),
                             !.undo_stack = Append(h.undo_stack, h.redo_stack[n])],
             group |-> <<h.redo_stack[n]>>]
       ELSE [h |-> h, group |-> <<>>]

can_undo(h) == h.undo_stack # <<>> \/ h.current_group # <<>>

can_redo(h) == h.redo_stack # <<>>

(***************************************************************************)
(* Buffer operations.  Each yields an outcome: what the call returned and  *)
(* the buffer fields after it.  ts is the value current_timestamp()        *)
(* returns when the operation is constructed.  cursor is the Position the  *)
(* call computed (the one undo, redo, backspace and delete_forward         *)
(* return), text the String delete and replace return, both as Options.    *)
(***************************************************************************)
Unchanged(res) ==
    [res |-> res, rope |-> rope, version |-> version, dirty |-> dirty,
     h |-> History, cursor |-> <<>>, text |-> <<>>]

Committed(r, h, cursor) ==
    [res |-> "Ok", rope |-> r, version |-> version + 1, dirty |-> TRUE,
     h |-> h, cursor |-> <<cursor>>, text |-> <<>>]

\* what is observed of an operation that turns the text into post
Obs(post) == Observed(next_id, rope, post, version + 1)

\* Buffer::insert recording the operation before it translates the position
Buffer_insert_RecordFirst(pos, text, ts) ==
    IF read_only THEN Unchanged("BufferError")
    ELSE LET cursor_after == CursorAfter(pos, text)
             char_idx == position_to_char_idx(rope, pos)
             post == IF char_idx = InvalidIdx THEN rope
                     ELSE rope_insert(rope, char_idx, text)
             operation == EditOperation_insert(pos, text, cursor_after, ts, Obs(post))
             h == record_operation(History, operation)
         IN IF char_idx = InvalidIdx
            THEN [Unchanged("InvalidPosition") EXCEPT !.h = h]
            ELSE Committed(post, h, cursor_after)

Buffer_insert(pos, text, ts) ==
    IF read_only THEN Unchanged("BufferError")
    ELSE LET char_idx == position_to_char_idx(rope, pos)
         IN IF char_idx = InvalidIdx THEN Unchanged("InvalidPosition")
            ELSE LET cursor_after == CursorAfter(pos, text)
                     post == rope_insert(rope, char_idx, text)
                     operation == EditOperation_insert(pos, text, cursor_after, ts,
                                                       Obs(post))
                 IN Committed(post, record_operation(History, operation), cursor_after)

\* Buffer::delete without the read-only test
Buffer_delete_NoGuard(start, end, ts) ==
    LET start_idx == position_to_char_idx(rope, start)
        end_idx == position_to_char_idx(rope, end)
    IN IF start_idx = InvalidIdx \/ end_idx = InvalidIdx THEN Unchanged("InvalidPosition")
       ELSE IF start_idx > end_idx THEN Unchanged("InvalidRange")
       ELSE LET deleted_text == rope_slice(rope, start_idx, end_idx)
                post == rope_remove(rope, start_idx, end_idx)
                operation == EditOperation_delete(start, end, deleted_text, start,
                                                  ts, Obs(post))
            IN [Committed(post, record_operation(History, operation), start)
                   EXCEPT !.text = <<deleted_text>>]

\* Buffer::delete with the range test written `start_idx >= end_idx`
Buffer_delete_StrictRange(start, end, ts) ==
    IF read_only THEN Unchanged("BufferError")
    ELSE LET start_idx == position_to_char_idx(rope, start)
             end_idx == position_to_char_idx(rope, end)
         IN IF start_idx = InvalidIdx \/ end_idx = InvalidIdx THEN Unchanged("InvalidPosition")
            ELSE IF start_idx >= end_idx THEN Unchanged("InvalidRange")
            ELSE LET deleted_text == rope_slice(rope, start_idx, end_idx)
                     post == rope_remove(rope, start_idx, end_idx)
                     operation == EditOperation_delete(start, end, deleted_text, start,
                                                       ts, Obs(post))
                 IN [Committed(post, record_operation(History, operation), start)
                        EXCEPT !.text = <<deleted_text>>]

Buffer_delete(start, end, ts) ==
    IF read_only THEN Unchanged("BufferError")
    ELSE LET start_idx == position_to_char_idx(rope, start)
             end_idx == position_to_char_idx(rope, end)
         IN IF start_idx = InvalidIdx \/ end_idx = InvalidIdx THEN Unchanged("InvalidPosition")
            ELSE IF start_idx > end_idx THEN Unchanged("InvalidRange")
            ELSE LET deleted_text == rope_slice(rope, start_idx, end_idx)
                     post == rope_remove(rope, start_idx, end_idx)
                     operation == EditOperation_delete(start, end, deleted_text, start,
                                                       ts, Obs(post))
                 IN [Committed(post, record_operation(History, operation), start)
                        EXCEPT !.text = <<deleted_text>>]

Buffer_replace(start, end, text, ts) ==
    IF read_only THEN Unchanged("BufferError")
    ELSE LET start_idx == position_to_char_idx(rope, start)
             end_idx == position_to_char_idx(rope, end)
         IN IF start_idx = InvalidIdx \/ end_idx = InvalidIdx THEN Unchanged("InvalidPosition")
            ELSE IF start_idx > end_idx THEN Unchanged("InvalidRange")
            ELSE LET deleted_text == rope_slice(rope, start_idx, end_idx)
                     cursor_after == CursorAfter(start, text)
                     post == rope_insert(rope_remove(rope, start_idx, end_idx),
                                         start_idx, text)
                     operation == EditOperation_replace(start, end, deleted_text, text,
                                                        cursor_after, ts, Obs(post))
                 IN [Committed(post, record_operation(History, operation), cursor_after)
                        EXCEPT !.text = <<deleted_text>>]

\* One operation of Buffer::undo's loop on text r: [ok, rope]; ok = FALSE is the
\* early return of `?` with Err(InvalidPosition).
UndoOperation(r, operation) ==
    IF operation.op_type = "Insert" THEN
        IF operation.inserted_text = <<>> THEN [ok |-> TRUE, rope |-> r]
        ELSE LET end_pos == UndoEndPos(operation.start, operation.inserted_text[1])
                 start_idx == position_to_char_idx(r, operation.start)
                 end_idx == position_to_char_idx(r, end_pos)
             IN IF start_idx = InvalidIdx \/ end_idx = InvalidIdx
                THEN [ok |-> FALSE, rope |-> r]
                ELSE [ok |-> TRUE, rope |-> rope_remove(r, start_idx, end_idx)]
    ELSE IF operation.op_type = "Delete" THEN
        IF operation.deleted_text = <<>> THEN [ok |-> TRUE, rope |-> r]
        ELSE LET char_idx == position_to_char_idx(r, operation.start)
             IN IF char_idx = InvalidIdx
                THEN [ok |-> FALSE, rope |-> r]
                ELSE [ok |-> TRUE, rope |-> rope_insert(r, char_idx, operation.deleted_text[1])]
    ELSE
        IF operation.inserted_text = <<>> \/ operation.deleted_text = <<>>
        THEN [ok |-> TRUE, rope |-> r]
        ELSE LET end_pos == UndoEndPos(operation.start, operation.inserted_text[1])
                 start_idx == position_to_char_idx(r, operation.start)
                 end_idx == position_to_char_idx(r, end_pos)
             IN IF start_idx = InvalidIdx \/ end_idx = InvalidIdx
                THEN [ok |-> FALSE, rope |-> r]
                ELSE [ok |-> TRUE,
                      rope |-> rope_insert(rope_remove(r, start_idx, end_idx),
                                           start_idx, operation.deleted_text[1])]

\* for operation in group.operations.iter().rev(): operations[1..n] still to undo
RECURSIVE UndoOperations(_, _, _)
UndoOperations(r, operations, n) ==
    IF n = 0 THEN [ok |-> TRUE, rope |-> r]
    ELSE LET step == UndoOperation(r, operations[n])
         IN IF step.ok THEN UndoOperations(step.rope, operations, n - 1) ELSE step

\* One operation of Buffer::redo's loop
RedoOperation(r, operation) ==
    IF operation.op_type = "Insert" THEN
        IF operation.inserted_text = <<>> THEN [ok |-> TRUE, rope |-> r]
        ELSE LET char_idx == position_to_char_idx(r, operation.start)
             IN IF char_idx = InvalidIdx
                THEN [ok |-> FALSE, rope |-> r]
                ELSE [ok |-> TRUE, rope |-> rope_insert(r, char_idx, operation.inserted_text[1])]
    ELSE IF operation.op_type = "Delete" THEN
        IF operation.end = <<>> THEN [ok |-> TRUE, rope |-> r]
        ELSE LET start_idx == position_to_char_idx(r, operation.start)
                 end_idx == position_to_char_idx(r, operation.end[1])
             IN IF start_idx = InvalidIdx \/ end_idx = InvalidIdx
                THEN [ok |-> FALSE, rope |-> r]
                ELSE [ok |-> TRUE, rope |-> rope_remove(r, start_idx, end_idx)]
    ELSE
        IF operation.end = <<>> \/ operation.inserted_text = <<>>
        THEN [ok |-> TRUE, rope |-> r]
        ELSE LET start_idx == position_to_char_idx(r, operation.start)
                 end_idx == position_to_char_idx(r, operation.end[1])
             IN IF start_idx = InvalidIdx \/ end_idx = InvalidIdx
                THEN [ok |-> FALSE, rope |-> r]
                ELSE [ok |-> TRUE,
                      rope |-> rope_insert(rope_remove(r, start_idx, end_idx),
                                           start_idx, operation.inserted_text[1])]

\* for operation in &group.operations: operations[i..] still to redo
RECURSIVE RedoOperations(_, _, _)
RedoOperations(r, operations, i) ==
    IF i > Len(operations) THEN [ok |-> TRUE, rope |-> r]
    ELSE LET step == RedoOperation(r, operations[i])
         IN IF step.ok THEN RedoOperations(step.rope, operations, i + 1) ELSE step

\* Buffer::undo marking the buffer dirty before it asks the history
Buffer_undo_DirtyFirst ==
    LET u == UndoHistory_undo(History)
    IN IF u.group = <<>>
       THEN [Unchanged("UndoHistoryExhausted") EXCEPT !.h = u.h, !.dirty = TRUE]
       ELSE LET operations == u.group[1].operations
                replay == UndoOperations(rope, operations, Len(operations))
            IN IF ~replay.ok
               THEN [Unchanged("InvalidPosition") EXCEPT !.h = u.h, !.rope = replay.rope,
                                                         !.dirty = TRUE]
               ELSE Committed(replay.rope, u.h, operations[1].cursor_before)

\* Buffer::undo without `self.version = self.version.next()`
Buffer_undo_NoBump ==
    LET u == UndoHistory_undo(History)
    IN IF u.group = <<>> THEN [Unchanged("UndoHistoryExhausted") EXCEPT !.h = u.h]
       ELSE LET operations == u.group[1].operations
                replay == UndoOperations(rope, operations, Len(operations))
            IN IF ~replay.ok
               THEN [Unchanged("InvalidPosition") EXCEPT !.h = u.h, !.rope = replay.rope]
               ELSE [Committed(replay.rope, u.h, operations[1].cursor_before)
                        EXCEPT !.version = version]

Buffer_undo ==
    LET u == UndoHistory_undo(History)
    IN IF u.group = <<>> THEN [Unchanged("UndoHistoryExhausted") EXCEPT !.h = u.h]
       ELSE LET operations == u.group[1].operations
                replay == UndoOperations(rope, operations, Len(operations))
            IN IF ~replay.ok
               THEN [Unchanged("InvalidPosition") EXCEPT !.h = u.h, !.rope = replay.rope]
               ELSE Committed(replay.rope, u.h, operations[1].cursor_before)

\* Buffer::redo bumping the Version before the replay can fail
Buffer_redo_EarlyBump ==
    LET u == UndoHistory_redo(History)
    IN IF u.group = <<>> THEN [Unchanged("RedoHistoryExhausted") EXCEPT !.h = u.h]
       ELSE LET operations == u.group[1].operations
                replay == RedoOperations(rope, operations, 1)
            IN IF ~replay.ok
               THEN [Unchanged("InvalidPosition") EXCEPT !.h = u.h, !.rope = replay.rope,
                                                         !.version = version + 1]
               ELSE Committed(replay.rope, u.h, operations[Len(operations)].cursor_after)

Buffer_redo ==
    LET u == UndoHistory_redo(History)
    IN IF u.group = <<>> THEN [Unchanged("RedoHistoryExhausted") EXCEPT !.h = u.h]
       ELSE LET operations == u.group[1].operations
                replay == RedoOperations(rope, operations, 1)
            IN IF ~replay.ok
               THEN [Unchanged("InvalidPosition") EXCEPT !.h = u.h, !.rope = replay.rope]
               ELSE Committed(replay.rope, u.h, operations[Len(operations)].cursor_after)

\* Buffer::line(line_idx) is Ok
line_ok(line_idx) == line_idx < len_lines(rope)

\* prev_line.trim_end_matches(&['\n', '\r'][..])
RECURSIVE trim_end_matches(_)
trim_end_matches(s) ==
    IF s # <<>> /\ s[Len(s)] \in {"N", "R"}
    THEN trim_end_matches(SubSeq(s, 1, Len(s) - 1)) ELSE s

\* Buffer::backspace counting the previous line's graphemes without trimming
\* its line break
Buffer_backspace_NoTrim(pos, ts) ==
    IF pos.line = 0 /\ pos.column = 0 THEN [Unchanged("Ok") EXCEPT !.cursor = <<pos>>]
    ELSE IF pos.column = 0 THEN
        LET prev_line_idx == pos.line - 1
        IN IF ~line_ok(prev_line_idx) THEN Unchanged("InvalidPosition")
           ELSE LET prev_line_len == Len(graphemes(rope_line(rope, prev_line_idx)))
                IN Buffer_delete(Position_new(prev_line_idx, prev_line_len), pos, ts)
    ELSE IF ~line_ok(pos.line) THEN Unchanged("InvalidPosition")
    ELSE IF pos.column > 0 /\ pos.column <= Len(graphemes(rope_line(rope, pos.line)))
         THEN Buffer_delete(Position_new(pos.line, pos.column - 1), pos, ts)
         ELSE [Unchanged("Ok") EXCEPT !.cursor = <<pos>>]

Buffer_backspace(pos, ts) ==
    IF pos.line = 0 /\ pos.column = 0 THEN [Unchanged("Ok") EXCEPT !.cursor = <<pos>>]
    ELSE IF pos.column = 0 THEN
        LET prev_line_idx == pos.line - 1
        IN IF ~line_ok(prev_line_idx) THEN Unchanged("InvalidPosition")
           ELSE LET prev_line_len ==
                        Len(graphemes(trim_end_matches(rope_line(rope, prev_line_idx))))
                IN Buffer_delete(Position_new(prev_line_idx, prev_line_len), pos, ts)
    ELSE IF ~line_ok(pos.line) THEN Unchanged("InvalidPosition")
    ELSE IF pos.column > 0 /\ pos.column <= Len(graphemes(rope_line(rope, pos.line)))
         THEN Buffer_delete(Position_new(pos.line, pos.column - 1), pos, ts)
         ELSE [Unchanged("Ok") EXCEPT !.cursor = <<pos>>]

Buffer_delete_forward(pos, ts) ==
    IF ~line_ok(pos.line) THEN Unchanged("InvalidPosition")
    ELSE IF pos.column >= Len(graphemes(rope_line(rope, pos.line))) THEN
        IF pos.line + 1 < len_lines(rope)
        THEN Buffer_delete(pos, Position_new(pos.line + 1, 0), ts)
        ELSE [Unchanged("Ok") EXCEPT !.cursor = <<pos>>]
    ELSE Buffer_delete(pos, Position_new(pos.line, pos.column + 1), ts)

(***************************************************************************)
(* Selections (crates/editor-core/src/selection.rs).                       *)
(***************************************************************************)
Position_zero == Position_new(0, 0)

\* Ord for Position: by line, then by column
Position_le(p, q) == p.line < q.line \/ (p.line = q.line /\ p.column <= q.column)

Position_max(p, q) == IF Position_le(p, q) THEN q ELSE p

Cursor_new(position) ==
    [position |-> position, affinity |-> "Downstream", sticky_column |-> <<>>]

Selection_new(anchor, cursor) ==
    [anchor |-> anchor, cursor |-> Cursor_new(cursor), granularity |-> "Character"]

Selection_collapsed(position) ==
    [anchor |-> position, cursor |-> Cursor_new(position),
     granularity |-> "Character"]

\* Selection::range as <<start, end>>
Selection_range(s) ==
    IF Position_le(s.anchor, s.cursor.position)
    THEN <<s.anchor, s.cursor.position>>
    ELSE <<s.cursor.position, s.anchor>>

SelectionSet_new(selection) ==
    /\ primary = 0
    /\ selections = <<selection>>

SelectionSet_default == SelectionSet_new(Selection_collapsed(Position_zero))

\* the bidi-text components before any paragraph or line list is given
\* BidiInfo::new of an empty text finds no paragraph and reports RightToLeft
NoParagraph ==
    paragraph = <<>> /\ base_direction = "RightToLeft" /\ logical_pos = 0
NoLines == lines = <<>> /\ text_position = <<>>

\* WordBoundaryFinder::new("")
NoFinder == finder_graphemes = <<>> /\ finder_boundaries = <<>>

\* An f32 length of ScrollBar, counted in tenths of a pixel so that
\* viewport_height * 0.8 and the halves of the modelled lengths are whole.
Px(n) == 10 * n

\* ScrollBar::new()
ScrollBar_new ==
    /\ content_height = Px(1000)
    /\ viewport_height = Px(500)
    /\ scroll_position = 0
    /\ dragging = FALSE

\* GlyphCache::new(): an empty cache of 50 MB
GlyphCache_new ==
    /\ cache = <<>>
    /\ max_size = 50 * 1024 * 1024
    /\ current_size = 0
    /\ access_order = <<>>

\* the ui components before any of their operations is called
IdleUi == NoFinder /\ ScrollBar_new /\ GlyphCache_new

(***************************************************************************)
(* Inputs.                                                                 *)
(***************************************************************************)
Positions == [line : 0..MaxLine, column : 0..MaxColumn]

\* texts a buffer is created from (Buffer::from_text)
InitTexts == {<<>>, <<"E", "a">>, <<"a", "N">>}

\* texts passed to insert and replace
InsTexts == {<<"a">>, <<"E">>, <<"a", "N">>}

\* time that passes before an insertion reads the clock; the other operations
\* read it at once
Delays == {MergeWindow, MergeWindow + 1}

(***************************************************************************)
(* The Buffer API.  A call that returned out leaves the buffer as out      *)
(* says; ts is the clock value an operation constructed by the call reads; *)
(* pos is the position backspace or delete_forward was called with, as an  *)
(* Option; result.ret is the value the call returned inside Ok, as an      *)
(* Option (<<>> for a call that failed or returns no value).               *)
(***************************************************************************)
Apply(call, out, ts, pos) ==
    LET recorded == call \notin {"undo", "redo"} /\ out.version # version
    IN /\ rope' = out.rope
       /\ version' = out.version
       /\ dirty' = out.dirty
       /\ undo_stack' = out.h.undo_stack
       /\ redo_stack' = out.h.redo_stack
       /\ current_group' = out.h.current_group
       /\ max_operations' = out.h.max_operations
       /\ now' = IF recorded THEN ts ELSE now
       /\ next_id' = IF recorded THEN next_id + 1 ELSE next_id
       /\ result' = [call |-> call, res |-> out.res, pos |-> pos,
                     ret |-> IF call \in {"delete", "replace"} THEN out.text
                             ELSE IF call \in {"undo", "redo", "backspace",
                                               "delete_forward"} THEN out.cursor
                             ELSE <<>>]
       /\ UNCHANGED <<read_only, selvars, bidivars, linevars, uivars>>

Insert ==
    /\ next_id < MaxEdits
    /\ \E pos \in Positions, text \in InsTexts, d \in Delays :
          Apply("insert", Buffer_insert(pos, text, now + d), now + d, <<>>)

Delete ==
    /\ next_id < MaxEdits
    /\ \E start \in Positions, end \in Positions :
          Apply("delete", Buffer_delete(start, end, now), now, <<>>)

Replace ==
    /\ next_id < MaxEdits
    /\ \E start \in Positions, end \in Positions, text \in InsTexts :
          Apply("replace", Buffer_replace(start, end, text, now), now, <<>>)

Backspace ==
    /\ next_id < MaxEdits
    /\ \E pos \in Positions :
          Apply("backspace", Buffer_backspace(pos, now), now, <<pos>>)

DeleteForward ==
    /\ next_id < MaxEdits
    /\ \E pos \in Positions :
          Apply("delete_forward", Buffer_delete_forward(pos, now), now, <<pos>>)

Undo ==
    /\ version < MaxVersion
    /\ Apply("undo", Buffer_undo, now, <<>>)

Redo ==
    /\ version < MaxVersion
    /\ Apply("redo", Buffer_redo, now, <<>>)

\* Buffer::create_undo_boundary
CreateUndoBoundary ==
    Apply("create_undo_boundary", [Unchanged("Ok") EXCEPT !.h = create_boundary(History)],
          now, <<>>)

\* Buffer::snapshot, a read accessor
Snapshot ==
    Apply("snapshot", Unchanged("Ok"), now, <<>>)

Init ==
    /\ rope \in InitTexts
    /\ version = 0
    /\ dirty = FALSE
    /\ read_only = FALSE
    /\ undo_stack = UndoHistory_new.undo_stack
    /\ redo_stack = UndoHistory_new.redo_stack
    /\ current_group = UndoHistory_new.current_group
    /\ max_operations = UndoHistory_new.max_operations
    /\ now = 0
    /\ next_id = 0
    /\ result = [call |-> "from_text", res |-> "Ok", pos |-> <<>>, ret |-> <<>>]
    /\ SelectionSet_default /\ NoParagraph /\ NoLines /\ IdleUi

Next ==
    \/ Insert
    \/ Delete
    \/ Replace
    \/ Backspace
    \/ DeleteForward
    \/ Undo
    \/ Redo
    \/ CreateUndoBoundary
    \/ Snapshot

Spec == Init /\ [][Next]_vars

(***************************************************************************)
(* The Buffer API with Buffer::set_read_only.                              *)
(***************************************************************************)
SetReadOnly ==
    \E b \in BOOLEAN :
        /\ read_only' = b
        /\ result' = [call |-> "set_read_only", res |-> "Ok", pos |-> <<>>, ret |-> <<>>]
        /\ UNCHANGED <<rope, version, dirty, histvars, now, next_id>>
        /\ UNCHANGED <<selvars, bidivars, linevars, uivars>>

ReadOnlyNext ==
    \/ Next
    \/ SetReadOnly

ReadOnlySpec == Init /\ [][ReadOnlyNext]_vars

(***************************************************************************)
(* UndoHistory on its own: any caller may record any operation, with any   *)
(* timestamp, under any limit given to UndoHistory::with_limits.           *)
(***************************************************************************)
HPositions == {Position_new(0, 0), Position_new(0, 1)}

HStamps == {0, MergeWindow, MergeWindow + 1}

HNext(pos) == Position_new(pos.line, pos.column + 1)

HOperations(id) ==
    LET obs == Observed(id, <<>>, <<>>, 0)
    IN UNION {
        { EditOperation_insert(pos, <<"a">>, HNext(pos), ts, obs),
          EditOperation_delete(pos, HNext(pos), <<"a">>, pos, ts, obs),
          EditOperation_replace(pos, HNext(pos), <<"a">>, <<"E">>, HNext(pos), ts, obs) }
        : pos \in HPositions, ts \in HStamps }

HApply(call, res, h, operation) ==
    /\ undo_stack' = h.undo_stack
    /\ redo_stack' = h.redo_stack
    /\ current_group' = h.current_group
    /\ max_operations' = h.max_operations
    /\ result' = [call |-> call, res |-> res, operation |-> operation]
    /\ UNCHANGED <<bufvars, now, selvars, bidivars, linevars, uivars>>

HRecord ==
    /\ next_id < MaxRecords
    /\ \E operation \in HOperations(next_id) :
          HApply("record_operation", "Ok", record_operation(History, operation),
                 <<operation>>)
    /\ next_id' = next_id + 1

HCreateBoundary ==
    /\ HApply("create_boundary", "Ok", create_boundary(History), <<>>)
    /\ UNCHANGED next_id

HUndo ==
    LET u == UndoHistory_undo(History)
    IN /\ HApply("undo", IF u.group = <<>> THEN "None" ELSE "Some", u.h, <<>>)
       /\ UNCHANGED next_id

HRedo ==
    LET u == UndoHistory_redo(History)
    IN /\ HApply("redo", IF u.group = <<>> THEN "None" ELSE "Some", u.h, <<>>)
       /\ UNCHANGED next_id

HInit ==
    /\ rope = <<>>
    /\ version = 0
    /\ dirty = FALSE
    /\ read_only = FALSE
    /\ \E limit \in 1..MaxLimit :
          /\ undo_stack = UndoHistory_with_limits(limit).undo_stack
          /\ redo_stack = UndoHistory_with_limits(limit).redo_stack
          /\ current_group = UndoHistory_with_limits(limit).current_group
          /\ max_operations = UndoHistory_with_limits(limit).max_operations
    /\ now = 0
    /\ next_id = 0
    /\ result = [call |-> "with_limits", res |-> "Ok", operation |-> <<>>]
    /\ SelectionSet_default /\ NoParagraph /\ NoLines /\ IdleUi

HistoryNext ==
    \/ HRecord
    \/ HCreateBoundary
    \/ HUndo
    \/ HRedo

HistorySpec == HInit /\ [][HistoryNext]_vars

(***************************************************************************)
(* The two conversions between Position and character index, applied to    *)
(* any buffer text and any argument.  result.arg is the argument and       *)
(* result.ret the value returned inside Ok, as an Option.                  *)
(***************************************************************************)
ConvTexts == UNION {[1..n -> Chars] : n \in 0..MaxText}

ConvPositions == [line : 0..MaxText + 1, column : 0..MaxText + 1]

ConvIndices == 0..MaxText + 1

ConvApply(call, arg, ret) ==
    /\ result' = [call |-> call, res |-> IF ret = <<>> THEN "InvalidPosition" ELSE "Ok",
                  arg |-> arg, ret |-> ret]
    /\ UNCHANGED <<bufvars, histvars, now, next_id, selvars, bidivars, linevars, uivars>>

PositionToCharIdx ==
    \E pos \in ConvPositions :
        LET idx == position_to_char_idx(rope, pos)
        IN ConvApply("position_to_char_idx", pos,
                     IF idx = InvalidIdx THEN <<>> ELSE <<idx>>)

CharIdxToPosition ==
    \E idx \in ConvIndices :
        ConvApply("char_idx_to_position", idx, char_idx_to_position(rope, idx))

ConvInit ==
    /\ rope \in ConvTexts
    /\ version = 0
    /\ dirty = FALSE
    /\ read_only = FALSE
    /\ undo_stack = UndoHistory_new.undo_stack
    /\ redo_stack = UndoHistory_new.redo_stack
    /\ current_group = UndoHistory_new.current_group
    /\ max_operations = UndoHistory_new.max_operations
    /\ now = 0
    /\ next_id = 0
    /\ result = [call |-> "from_text", res |-> "Ok", arg |-> <<>>, ret |-> <<>>]
    /\ SelectionSet_default /\ NoParagraph /\ NoLines /\ IdleUi

ConvNext ==
    \/ PositionToCharIdx
    \/ CharIdxToPosition

ConvSpec == ConvInit /\ [][ConvNext]_vars

(***************************************************************************)
(* An insertion into any buffer text, followed by the deletion of the      *)
(* inserted span: insert(pos, text), then delete(pos, e) with e the        *)
(* Position char_idx_to_position gives for the character index right after *)
(* the inserted text.                                                      *)
(***************************************************************************)
InsertedTexts == UNION {[1..n -> Chars] : n \in 1..MaxInserted}

InsertText ==
    /\ next_id = 0
    /\ \E pos \in ConvPositions, text \in InsertedTexts :
          Apply("insert", Buffer_insert(pos, text, now), now, <<pos>>)

\* the end of the span inserted by operation, in the text as it is now
InsertedEnd(operation) ==
    char_idx_to_position(rope, position_to_char_idx(operation.obs.pre, operation.start)
                                   + len_chars(operation.inserted_text[1]))

DeleteInserted ==
    /\ result.call = "insert"
    /\ result.res = "Ok"
    /\ LET operation == current_group[1].operations[1]
       IN /\ InsertedEnd(operation) # <<>>
          /\ Apply("delete",
                   Buffer_delete(operation.start, InsertedEnd(operation)[1], now),
                   now, <<operation.start>>)

InsertDeleteInit ==
    /\ rope \in ConvTexts
    /\ version = 0
    /\ dirty = FALSE
    /\ read_only = FALSE
    /\ undo_stack = UndoHistory_new.undo_stack
    /\ redo_stack = UndoHistory_new.redo_stack
    /\ current_group = UndoHistory_new.current_group
    /\ max_operations = UndoHistory_new.max_operations
    /\ now = 0
    /\ next_id = 0
    /\ result = [call |-> "from_text", res |-> "Ok", pos |-> <<>>, ret |-> <<>>]
    /\ SelectionSet_default /\ NoParagraph /\ NoLines /\ IdleUi

InsertDeleteNext ==
    \/ InsertText
    \/ DeleteInserted

InsertDeleteSpec == InsertDeleteInit /\ [][InsertDeleteNext]_vars

(***************************************************************************)
(* SelectionSet alone: add_selection, clear_secondary, merge_overlapping   *)
(* from SelectionSet::new(selection).  result.index and result.primary are *)
(* the primary index and the primary selection when the call was made.     *)
(***************************************************************************)
\* the index list 0..len-1 stably sorted by range start: sorted_indices[k]
\* is the index with k-1 indices before it
sorted_indices(sels) ==
    LET n == Len(sels)
        start(i) == Selection_range(sels[i + 1])[1]
        before(j, i) ==
            \/ ~Position_le(start(i), start(j))
            \/ (start(i) = start(j) /\ j < i)
        rank(i) == Cardinality({j \in 0..(n - 1) : before(j, i)})
    IN  [k \in 1..n |-> CHOOSE i \in 0..(n - 1) : rank(i) = k - 1]

\* the loop of merge_overlapping from the k-th sorted index on
RECURSIVE MergeLoop(_, _, _, _, _)
MergeLoop(sels, sorted, k, current, merged) ==
    IF k > Len(sorted) THEN Append(merged, current)
    ELSE LET sel == sels[sorted[k] + 1]
             current_range == Selection_range(current)
             sel_range == Selection_range(sel)
         IN  IF Position_le(sel_range[1], current_range[2])
             THEN MergeLoop(sels, sorted, k + 1,
                      Selection_new(current_range[1],
                                    Position_max(current_range[2], sel_range[2])),
                      merged)
             ELSE MergeLoop(sels, sorted, k + 1, sel, Append(merged, current))

\* iter().position(..).unwrap_or(0) over merged
PrimaryIn(merged, old_primary) ==
    LET hits == {i \in 1..Len(merged) :
                    Selection_range(merged[i]) = Selection_range(old_primary)}
    IN  IF hits = {} THEN 0
        ELSE (CHOOSE i \in hits : \A j \in hits : i <= j) - 1

\* the SelectionSet after merge_overlapping
merge_overlapping(p, sels) ==
    IF Len(sels) <= 1 THEN [primary |-> p, selections |-> sels]
    ELSE LET sorted == sorted_indices(sels)
             merged == MergeLoop(sels, sorted, 2, sels[sorted[1] + 1], <<>>)
         IN  [primary |-> PrimaryIn(merged, sels[p + 1]), selections |-> merged]

\* a clear_secondary that keeps the first selection whatever the primary is
clear_secondary_KeepFirst(p, sels) ==
    [primary |-> 0, selections |-> SubSeq(sels, 1, 1)]

\* the SelectionSet after clear_secondary
clear_secondary(p, sels) ==
    IF p # 0
    THEN [primary |-> 0, selections |-> <<sels[p + 1]>>]
    ELSE [primary |-> 0, selections |-> SubSeq(sels, 1, 1)]

SelPositions == [line : 0..MaxLine, column : 0..MaxSelColumn]

SelApply(call, set) ==
    /\ primary' = set.primary
    /\ selections' = set.selections
    /\ result' = [call |-> call, res |-> "Ok", index |-> primary,
                  primary |-> selections[primary + 1]]
    /\ UNCHANGED <<bufvars, histvars, now, next_id, bidivars, linevars, uivars>>

AddSelection ==
    /\ Len(selections) < MaxSelections
    /\ \E anchor \in SelPositions, cursor \in SelPositions :
           SelApply("add_selection",
                    [primary |-> primary,
                     selections |-> Append(selections, Selection_new(anchor, cursor))])

ClearSecondary == SelApply("clear_secondary", clear_secondary(primary, selections))

MergeOverlapping ==
    SelApply("merge_overlapping", merge_overlapping(primary, selections))

SelectionInit ==
    /\ rope = <<>>
    /\ version = 0
    /\ dirty = FALSE
    /\ read_only = FALSE
    /\ undo_stack = <<>>
    /\ redo_stack = <<>>
    /\ current_group = <<>>
    /\ max_operations = DefaultMaxOperations
    /\ now = 0
    /\ next_id = 0
    /\ NoParagraph /\ NoLines /\ IdleUi
    /\ \E anchor \in SelPositions, cursor \in SelPositions :
           /\ SelectionSet_new(Selection_new(anchor, cursor))
           /\ result = [call |-> "new", res |-> "Ok", index |-> 0,
                        primary |-> Selection_new(anchor, cursor)]

SelectionNext == AddSelection \/ ClearSecondary \/ MergeOverlapping

SelectionSpec == SelectionInit /\ [][SelectionNext]_vars

(***************************************************************************)
(* unicode_bidi::BidiInfo as crates/bidi-text/src/algorithm.rs uses it.    *)
(* The classes of the alphabet are L, R, WS, ON and B, so of UAX #9 the    *)
(* rules P2, P3, N1, N2, I1, I2 and L1 act.  Levels are kept one per UTF-8 *)
(* byte, and reordered_levels returns the levels of the whole text with    *)
(* rule L1 applied inside the line it is given.                            *)
(***************************************************************************)
BidiClass(c) ==
    CASE c \in {"a", "E"} -> "L"
      [] c = "H" -> "R"
      [] c = " " -> "WS"
      [] c \in {"N", "R"} -> "B"
      [] OTHER -> "ON"

Strong(c) == BidiClass(c) \in {"L", "R"}

\* the paragraph of character i (1-based): from after the previous paragraph
\* separator to the next separator, which belongs to the paragraph
ParaStart(t, i) ==
    LET seps == {j \in 1..(i - 1) : BidiClass(t[j]) = "B"}
    IN  IF seps = {} THEN 1 ELSE (CHOOSE j \in seps : \A k \in seps : k <= j) + 1

ParaEnd(t, i) ==
    LET seps == {j \in i..Len(t) : BidiClass(t[j]) = "B"}
    IN  IF seps = {} THEN Len(t) ELSE CHOOSE j \in seps : \A k \in seps : j <= k

\* P2, P3: the level of the paragraph of character i
ParaLevel(t, i) ==
    LET strong == {j \in ParaStart(t, i)..ParaEnd(t, i) : Strong(t[j])}
    IN  IF strong = {} THEN 0
        ELSE IF BidiClass(t[CHOOSE j \in strong : \A k \in strong : j <= k]) = "R"
        THEN 1 ELSE 0

LevelClass(level) == IF level % 2 = 0 THEN "L" ELSE "R"

\* N1, N2: the class of character i after the neutrals are resolved
ResolvedClass(t, i) ==
    LET e == LevelClass(ParaLevel(t, i))
        prev == {j \in ParaStart(t, i)..(i - 1) : Strong(t[j])}
        next == {j \in (i + 1)..ParaEnd(t, i) : Strong(t[j])}
        before == IF prev = {} THEN e
                  ELSE BidiClass(t[CHOOSE j \in prev : \A k \in prev : k <= j])
        after == IF next = {} THEN e
                 ELSE BidiClass(t[CHOOSE j \in next : \A k \in next : j <= k])
    IN  IF Strong(t[i]) THEN BidiClass(t[i])
        ELSE IF before = after THEN before ELSE e

\* I1, I2: the resolved level of character i
ResolvedLevel(t, i) ==
    LET para == ParaLevel(t, i)
    IN  IF ResolvedClass(t, i) = LevelClass(para) THEN para ELSE para + 1

\* byte offset of character i (1-based) in the UTF-8 text
ByteOffset(t, i) == ByteLen(SubSeq(t, 1, i - 1))

is_char_boundary(t, b) == \E i \in 1..(Len(t) + 1) : ByteOffset(t, i) = b

\* the character (1-based) that byte b (0-based) belongs to
CharOfByte(t, b) ==
    CHOOSE i \in 1..Len(t) : ByteOffset(t, i) <= b /\ b < ByteOffset(t, i + 1)

\* L1 inside the line [start, end): is character i reset to the paragraph level
ResetByL1(t, i, start, end) ==
    LET inLine(j) == start <= ByteOffset(t, j) /\ ByteOffset(t, j) < end
        rest == {j \in i..Len(t) : inLine(j) /\ BidiClass(t[j]) # "WS"}
    IN  /\ inLine(i)
        /\ \/ BidiClass(t[i]) = "B"
           \/ /\ BidiClass(t[i]) = "WS"
              /\ \/ rest = {}
                 \/ BidiClass(t[CHOOSE j \in rest : \A k \in rest : j <= k]) = "B"

\* info.reordered_levels(&info.paragraphs[0], start..end): one level per byte
\* of the whole text
reordered_levels(t, start, end) ==
    [b \in 1..ByteLen(t) |->
        LET i == CharOfByte(t, b - 1)
        IN  IF ResetByL1(t, i, start, end) THEN ParaLevel(t, 1)
            ELSE ResolvedLevel(t, i)]

Direction_Inverted(level) == IF level % 2 = 0 THEN "RightToLeft" ELSE "LeftToRight"

\* Level::is_ltr as visual_runs maps it to a Direction
Direction(level) == IF level % 2 = 0 THEN "LeftToRight" ELSE "RightToLeft"

VisualRun(from, to, level) ==
    [logical_range |-> [start |-> from, end |-> to],
     direction |-> Direction(level), level |-> level]

\* the loop of BidiInfo::visual_runs over levels from index i (0-based) on,
\* and the final run
RECURSIVE RunLoop(_, _, _, _, _, _)
RunLoop(levels, i, start, end, current, runs) ==
    IF i >= Len(levels)
    THEN IF current.level = <<>> THEN runs
         ELSE Append(runs, VisualRun(current.start, end, current.level[1]))
    ELSE LET pos == start + i
             level == levels[i + 1]
         IN  IF <<level>> # current.level
             THEN RunLoop(levels, i + 1, start, end,
                      [level |-> <<level>>, start |-> pos],
                      IF current.level # <<>>
                      THEN Append(runs, VisualRun(current.start, pos, current.level[1]))
                      ELSE runs)
             ELSE RunLoop(levels, i + 1, start, end, current, runs)

\* BidiInfo::visual_runs(start..end) on text t.  The slice of the classes and
\* the sub-string of the line panic when the range is not inside the text or
\* cuts a character.
BidiInfo_visual_runs(t, start, end) ==
    IF t = <<>> THEN [res |-> "Ok", ret |-> <<>>]
    ELSE IF \/ start > end
            \/ end > ByteLen(t)
            \/ ~is_char_boundary(t, start)
            \/ ~is_char_boundary(t, end)
    THEN [res |-> "panic", ret |-> <<>>]
    ELSE [res |-> "Ok",
          ret |-> RunLoop(reordered_levels(t, start, end), 0, start, end,
                          [level |-> <<>>, start |-> start], <<>>)]

\* the base_direction BidiInfo::new(text, default_direction) stores;
\* default_direction is an Option
BidiInfo_new(t, default_direction) ==
    IF default_direction # <<>> THEN default_direction[1]
    ELSE IF t # <<>> /\ ParaLevel(t, 1) % 2 = 0 THEN "LeftToRight"
    ELSE "RightToLeft"

DefaultDirections == {<<>>, <<"LeftToRight">>, <<"RightToLeft">>}

\* BidiParagraph::visual_runs
BidiParagraph_visual_runs(t) == BidiInfo_visual_runs(t, 0, ByteLen(t))

BidiChars == {"a", "H", " ", "N"}

RECURSIVE TextsUpTo(_, _)
TextsUpTo(chars, n) ==
    IF n = 0 THEN {<<>>}
    ELSE LET shorter == TextsUpTo(chars, n - 1)
         IN  shorter \cup {Append(t, c) : t \in shorter, c \in chars}

BidiApply(call, arg, out) ==
    /\ result' = [call |-> call, res |-> out.res, arg |-> arg, ret |-> out.ret]
    /\ UNCHANGED <<bufvars, histvars, now, next_id, selvars, bidivars, linevars, uivars>>

VisualRuns ==
    \E start \in 0..ByteLen(paragraph), end \in 0..ByteLen(paragraph) :
        /\ start <= end
        /\ BidiApply("visual_runs", <<start, end>>,
                     BidiInfo_visual_runs(paragraph, start, end))

ParagraphVisualRuns ==
    BidiApply("paragraph_visual_runs", <<0, ByteLen(paragraph)>>,
              BidiParagraph_visual_runs(paragraph))

BidiInit ==
    /\ rope = <<>>
    /\ version = 0
    /\ dirty = FALSE
    /\ read_only = FALSE
    /\ undo_stack = <<>>
    /\ redo_stack = <<>>
    /\ current_group = <<>>
    /\ max_operations = DefaultMaxOperations
    /\ now = 0
    /\ next_id = 0
    /\ SelectionSet_default /\ NoLines /\ IdleUi
    /\ paragraph \in TextsUpTo(BidiChars, MaxParagraph)
    /\ logical_pos = 0
    /\ \E default_direction \in DefaultDirections :
           /\ base_direction = BidiInfo_new(paragraph, default_direction)
           /\ result = [call |-> "new", res |-> "Ok", arg |-> default_direction,
                        ret |-> <<>>]

BidiNext == VisualRuns \/ ParagraphVisualRuns

BidiSpec == BidiInit /\ [][BidiNext]_vars

(***************************************************************************)
(* CursorMovement::move_visual (crates/bidi-text/src/cursor.rs) on one     *)
(* paragraph.  logical_pos is the cursor; a returned position becomes the  *)
(* cursor of the next call.  result.arg is <<logical_pos, direction>> of   *)
(* the call, result.ret the position returned.                             *)
(***************************************************************************)
\* char::is_whitespace
is_whitespace(c) == c \in {" ", "N", "R"}

\* char::is_alphanumeric
is_alphanumeric(c) == c \in {"a", "E", "H"}

\* graphemes[i].chars().all(|c| c.is_alphanumeric() || c == '_')
is_word_char(grapheme) == \A i \in 1..Len(grapheme) : is_alphanumeric(grapheme[i])

\* the loop of char_to_grapheme_pos: the number of graphemes passed before
\* char_count reaches char_pos
char_to_grapheme_pos(t, char_pos) ==
    LET gs == graphemes(t)
        reached == {k \in 0..Len(gs) : SumChars(SubSeq(gs, 1, k)) >= char_pos}
    IN  IF reached = {} THEN Len(gs)
        ELSE CHOOSE k \in reached : \A j \in reached : k <= j

\* the characters of the first grapheme_pos graphemes
grapheme_to_char_pos(t, grapheme_pos) ==
    LET gs == graphemes(t)
    IN  SumChars(SubSeq(gs, 1, IF grapheme_pos < Len(gs) THEN grapheme_pos ELSE Len(gs)))

\* the forward loop of move_word_boundary from grapheme i (0-based) on
RECURSIVE WordForward(_, _, _)
WordForward(t, i, found_word) ==
    LET gs == graphemes(t)
    IN  IF i >= Len(gs) THEN ByteLen(t)
        ELSE IF ~found_word /\ is_word_char(gs[i + 1]) THEN WordForward(t, i + 1, TRUE)
        ELSE IF found_word /\ ~is_word_char(gs[i + 1]) THEN grapheme_to_char_pos(t, i)
        ELSE WordForward(t, i + 1, found_word)

\* the backward loop of move_word_boundary from grapheme i (0-based) down
RECURSIVE WordBackward(_, _, _)
WordBackward(t, i, found_word) ==
    LET gs == graphemes(t)
    IN  IF i < 0 THEN 0
        ELSE IF ~found_word /\ is_word_char(gs[i + 1]) THEN WordBackward(t, i - 1, TRUE)
        ELSE IF found_word /\ ~is_word_char(gs[i + 1])
        THEN grapheme_to_char_pos(t, i + 1)
        ELSE WordBackward(t, i - 1, found_word)

move_word_boundary(t, pos, forward) ==
    LET grapheme_pos == char_to_grapheme_pos(t, pos)
    IN  IF forward THEN WordForward(t, grapheme_pos, FALSE)
        ELSE WordBackward(t, grapheme_pos - 1, FALSE)

\* text.chars().position(|c| !c.is_whitespace()).unwrap_or(0)
first_non_ws(t) ==
    LET found == {i \in 1..Len(t) : ~is_whitespace(t[i])}
    IN  IF found = {} THEN 0
        ELSE (CHOOSE i \in found : \A j \in found : i <= j) - 1

\* a Home that goes to the first non-whitespace character on every press
move_home_NoToggle(t, pos) == first_non_ws(t)

\* the Home arm of move_visual
move_home(t, pos) ==
    IF pos # first_non_ws(t) /\ first_non_ws(t) > 0 THEN first_non_ws(t) ELSE 0

MoveOk(pos) == [res |-> "Ok", ret |-> pos]

move_visual(t, pos, direction) ==
    IF t = <<>> THEN MoveOk(0)
    ELSE CASE direction = "Left" ->
                  IF pos = 0 THEN MoveOk(0)
                  ELSE IF char_to_grapheme_pos(t, pos) = 0 THEN MoveOk(0)
                  ELSE MoveOk(grapheme_to_char_pos(t, char_to_grapheme_pos(t, pos) - 1))
           [] direction = "Right" ->
                  IF char_to_grapheme_pos(t, pos) >= Len(graphemes(t))
                  THEN MoveOk(ByteLen(t))
                  ELSE MoveOk(grapheme_to_char_pos(t, char_to_grapheme_pos(t, pos) + 1))
           [] direction = "Home" -> MoveOk(move_home(t, pos))
           [] direction = "End" -> MoveOk(ByteLen(t))
           [] direction = "WordLeft" -> MoveOk(move_word_boundary(t, pos, FALSE))
           [] direction = "WordRight" -> MoveOk(move_word_boundary(t, pos, TRUE))
           [] OTHER -> [res |-> "ProcessingError", ret |-> <<>>]

MovementDirection ==
    {"Left", "Right", "Up", "Down", "Home", "End", "WordLeft", "WordRight"}

CursorChars == {"a", "E", " ", ".", "R", "N"}

MoveVisual ==
    \E direction \in MovementDirection :
        LET out == move_visual(paragraph, logical_pos, direction)
        IN  /\ result' = [call |-> "move_visual", res |-> out.res,
                          arg |-> <<logical_pos, direction>>, ret |-> out.ret]
            /\ logical_pos' = IF out.res = "Ok" THEN out.ret ELSE logical_pos
            /\ UNCHANGED <<bufvars, histvars, now, next_id, selvars, paragraph,
                           base_direction, linevars, uivars>>

CursorInit ==
    /\ rope = <<>>
    /\ version = 0
    /\ dirty = FALSE
    /\ read_only = FALSE
    /\ undo_stack = <<>>
    /\ redo_stack = <<>>
    /\ current_group = <<>>
    /\ max_operations = DefaultMaxOperations
    /\ now = 0
    /\ next_id = 0
    /\ SelectionSet_default /\ NoLines /\ IdleUi
    /\ paragraph \in TextsUpTo(CursorChars, MaxParagraph)
    /\ base_direction = BidiInfo_new(paragraph, <<>>)
    /\ logical_pos \in 0..Len(paragraph)
    /\ result = [call |-> "new", res |-> "Ok", arg |-> <<>>, ret |-> <<>>]

CursorNext == MoveVisual

CursorSpec == CursorInit /\ [][CursorNext]_vars

(***************************************************************************)
(* CursorMovement::move_vertical over a list of lines.  text_position is   *)
(* the cursor; a returned TextPosition becomes the cursor of the next      *)
(* call.  result.arg is <<position, direction, sticky_column>> of the      *)
(* call, result.ret the TextPosition returned.                             *)
(***************************************************************************)
TextPosition(line, column) == [line |-> line, column |-> column]

\* an adjust_column_for_line that measures the line in bytes
adjust_column_for_line_Bytes(line, desired_column) ==
    IF desired_column < ByteLen(line) THEN desired_column ELSE ByteLen(line)

adjust_column_for_line(line, desired_column) ==
    LET line_length == Len(graphemes(line))
    IN  IF desired_column < line_length THEN desired_column ELSE line_length

\* sticky_column.unwrap_or(current_column)
unwrap_or(option, default) == IF option = <<>> THEN default ELSE option[1]

move_vertical(ls, current_line, current_column, direction, sticky_column) ==
    CASE direction = "Up" ->
             IF current_line = 0 THEN [res |-> "Ok", ret |-> TextPosition(0, 0)]
             ELSE [res |-> "Ok",
                   ret |-> TextPosition(current_line - 1,
                               adjust_column_for_line(ls[current_line],
                                   unwrap_or(sticky_column, current_column)))]
      [] direction = "Down" ->
             IF current_line + 1 >= Len(ls)
             THEN [res |-> "Ok",
                   ret |-> TextPosition(Len(ls) - 1, Len(graphemes(ls[Len(ls)])))]
             ELSE [res |-> "Ok",
                   ret |-> TextPosition(current_line + 1,
                               adjust_column_for_line(ls[current_line + 2],
                                   unwrap_or(sticky_column, current_column)))]
      [] OTHER -> [res |-> "ProcessingError", ret |-> <<>>]

LineChars == {"a", "E"}

RECURSIVE ListsUpTo(_, _)
ListsUpTo(items, n) ==
    IF n = 0 THEN {<<>>}
    ELSE LET shorter == ListsUpTo(items, n - 1)
         IN  shorter \cup {Append(l, x) : l \in shorter, x \in items}

StickyColumns == {<<>>} \cup {<<c>> : c \in 0..MaxColumn}

MoveVertical ==
    \E direction \in MovementDirection, sticky_column \in StickyColumns :
        LET out == move_vertical(lines, text_position.line, text_position.column,
                                 direction, sticky_column)
        IN  /\ result' = [call |-> "move_vertical", res |-> out.res,
                          arg |-> <<text_position, direction, sticky_column>>,
                          ret |-> out.ret]
            /\ text_position' = IF out.res = "Ok" THEN out.ret ELSE text_position
            /\ UNCHANGED <<bufvars, histvars, now, next_id, selvars, bidivars, lines,
                           uivars>>

VerticalInit ==
    /\ rope = <<>>
    /\ version = 0
    /\ dirty = FALSE
    /\ read_only = FALSE
    /\ undo_stack = <<>>
    /\ redo_stack = <<>>
    /\ current_group = <<>>
    /\ max_operations = DefaultMaxOperations
    /\ now = 0
    /\ next_id = 0
    /\ SelectionSet_default /\ NoParagraph /\ IdleUi
    /\ lines \in ListsUpTo(TextsUpTo(LineChars, MaxLineLen), MaxLines) \ {<<>>}
    /\ text_position \in {TextPosition(l, c) : l \in 0..(Len(lines) - 1),
                                                c \in 0..MaxColumn}
    /\ result = [call |-> "new", res |-> "Ok", arg |-> <<>>, ret |-> <<>>]

VerticalNext == MoveVertical

VerticalSpec == VerticalInit /\ [][VerticalNext]_vars

(***************************************************************************)
(* UndoHistory under typing: a run of one-character insertions, each at    *)
(* the cursor position the previous one left, each recorded some delay     *)
(* after the previous one.                                                 *)
(***************************************************************************)
TypingDelays == {1, MergeWindow, MergeWindow + 1}

Type ==
    /\ next_id < MaxTyped
    /\ \E d \in TypingDelays :
          LET operation ==
                  EditOperation_insert(Position_new(0, next_id), <<"a">>,
                                       Position_new(0, next_id + 1), now + d,
                                       Observed(next_id, <<>>, <<>>, 0))
              h == record_operation(History, operation)
          IN  /\ undo_stack' = h.undo_stack
              /\ redo_stack' = h.redo_stack
              /\ current_group' = h.current_group
              /\ max_operations' = h.max_operations
              /\ now' = now + d
              /\ result' = [call |-> "record_operation", res |-> "Ok",
                            operation |-> <<operation>>]
    /\ next_id' = next_id + 1
    /\ UNCHANGED <<bufvars, selvars, bidivars, linevars, uivars>>

TypingInit ==
    /\ rope = <<>>
    /\ version = 0
    /\ dirty = FALSE
    /\ read_only = FALSE
    /\ undo_stack = UndoHistory_new.undo_stack
    /\ redo_stack = UndoHistory_new.redo_stack
    /\ current_group = UndoHistory_new.current_group
    /\ max_operations = UndoHistory_new.max_operations
    /\ now = 0
    /\ next_id = 0
    /\ result = [call |-> "new", res |-> "Ok", operation |-> <<>>]
    /\ SelectionSet_default /\ NoParagraph /\ NoLines /\ IdleUi

TypingNext == Type

TypingSpec == TypingInit /\ [][TypingNext]_vars

(***************************************************************************)
(* What the properties below observe.                                      *)
(***************************************************************************)
Last(seq) == seq[Len(seq)]

Edits == {"insert", "delete", "replace"}

\* the open group holds exactly one operation, and nothing was merged into it:
\* the latest change of the buffer is that operation, forming its own group
OwnGroupOpen ==
    /\ current_group # <<>>
    /\ Len(current_group[1].operations) = 1
    /\ Len(current_group[1].operations[1].obs.parts) = 1

\* the latest change of the buffer is a successful undo of a single unmerged
\* operation, made right after that operation
OwnGroupJustUndone ==
    /\ result.call = "undo"
    /\ result.res = "Ok"
    /\ redo_stack # <<>>
    /\ Len(Last(redo_stack).operations) = 1
    /\ Len(Last(redo_stack).operations[1].obs.parts) = 1
    /\ version = Last(redo_stack).operations[1].obs.ver + 1

\* C1: an undo() made right after an insert, delete or replace that forms its
\* own undo group succeeds and leaves the text as it was before that operation.
C1_UndoRestoresText ==
    [][(result'.call = "undo" /\ OwnGroupOpen)
        => /\ result'.res = "Ok"
           /\ rope' = current_group[1].operations[1].obs.pre]_vars

\* C2: a redo() made right after the successful undo() of a single operation
\* succeeds and leaves the text as it was right after that operation.
C2_RedoRestoresText ==
    [][(result'.call = "redo" /\ OwnGroupJustUndone)
        => /\ result'.res = "Ok"
           /\ rope' = Last(redo_stack).operations[1].obs.post]_vars

\* delete_forward(pos) is called at the end of the last line
AtEndOfLastLine(pos) ==
    /\ pos.line + 1 = len_lines(rope)
    /\ pos.column >= Len(graphemes(rope_line(rope, pos.line)))

\* C3: every successful insert, delete, replace, undo and redo adds exactly 1 to
\* Version, a backspace or delete_forward that removes something adds exactly 1,
\* every failing call, every no-op (backspace at the document start,
\* delete_forward at the end of the last line) and every read accessor leaves
\* Version as it is, and Version never decreases.
C3_VersionBump ==
    [][/\ (result'.call \in Edits \cup {"undo", "redo"} /\ result'.res = "Ok")
            => version' = version + 1
       /\ (result'.call \in {"backspace", "delete_forward"} /\ rope' # rope)
            => version' = version + 1
       /\ result'.res # "Ok" => version' = version
       /\ result'.call \in {"snapshot", "create_undo_boundary"} => version' = version
       /\ (result'.call = "backspace" /\ result'.pos = <<Position_new(0, 0)>>)
            => version' = version
       /\ (result'.call = "delete_forward" /\ AtEndOfLastLine(result'.pos[1]))
            => version' = version
       /\ version' >= version]_vars

C3_Witness ==
    /\ result.call = "redo"
    /\ result.res = "Ok"
    /\ version = 3

\* C4: the text changes only when Version changes, and Version never returns to
\* an earlier value: two snapshots with the same Version hold the same text.
C4_TextChangesWithVersion ==
    [][/\ version' = version => rope' = rope
       /\ version' >= version]_vars

\* a call failed after it had changed the history
C4_Witness ==
    /\ result.call = "undo"
    /\ result.res = "InvalidPosition"
    /\ redo_stack # <<>>
    /\ version = 1

\* the cursor position right after the single character c inserted at pos
NextCursor(pos, c) ==
    IF c = "N" THEN Position_new(pos.line + 1, 0)
    ELSE Position_new(pos.line, pos.column + 1)

\* p1 and p2 are insertions of one character each, p2 at the cursor position
\* right after p1
TypedPair(p1, p2) ==
    /\ Len(p1.text) = 1
    /\ Len(p2.text) = 1
    /\ p2.start = NextCursor(p1.start, p1.text[1])

\* the two latest changes of the buffer are such a pair, held in one operation
TypedPairMerged ==
    /\ current_group # <<>>
    /\ Len(current_group[1].operations) = 1
    /\ current_group[1].operations[1].op_type = "Insert"
    /\ Len(current_group[1].operations[1].obs.parts) = 2
    /\ TypedPair(current_group[1].operations[1].obs.parts[1],
                 current_group[1].operations[1].obs.parts[2])

\* g1 then g2 hold such a pair, one insertion each, made one right after the other
TypedPairSplit(g1, g2) ==
    /\ Len(g1.operations) = 1
    /\ Len(g2.operations) = 1
    /\ g1.operations[1].op_type = "Insert"
    /\ g2.operations[1].op_type = "Insert"
    /\ Len(g1.operations[1].obs.parts) = 1
    /\ Len(g2.operations[1].obs.parts) = 1
    /\ g2.operations[1].obs.ver = g1.operations[1].obs.ver + 1
    /\ TypedPair(g1.operations[1].obs.parts[1], g2.operations[1].obs.parts[1])

Gap(g1, g2) == g2.operations[1].timestamp - g1.operations[1].timestamp

\* C5: two character insertions, the second at the cursor position right after
\* the first: recorded at most 1000 ms apart, one undo() restores the text from
\* before the first; recorded more than 1000 ms apart, the first undo() removes
\* only the second character and a second undo() removes the first.
C5_TypedPairUndo ==
    [][result'.call = "undo" =>
        /\ TypedPairMerged =>
              /\ current_group[1].operations[1].obs.parts[2].timestamp
                   - current_group[1].operations[1].obs.parts[1].timestamp <= MergeWindow
              /\ result'.res = "Ok"
              /\ rope' = current_group[1].operations[1].obs.pre
        /\ (/\ undo_stack # <<>>
            /\ current_group # <<>>
            /\ TypedPairSplit(Last(undo_stack), current_group[1]))
           => /\ Gap(Last(undo_stack), current_group[1]) > MergeWindow
              /\ result'.res = "Ok"
              /\ rope' = current_group[1].operations[1].obs.pre
        /\ (/\ undo_stack # <<>>
            /\ redo_stack # <<>>
            /\ current_group = <<>>
            /\ result.call = "undo"
            /\ result.res = "Ok"
            /\ version = Last(redo_stack).operations[1].obs.ver + 1
            /\ TypedPairSplit(Last(undo_stack), Last(redo_stack)))
           => /\ result'.res = "Ok"
              /\ rope' = Last(undo_stack).operations[1].obs.pre]_vars

\* the merge rule as the specification states it, for operation new arriving
\* while the open group ends with operation last
MergeRule(last, new) ==
    /\ last.op_type = "Insert"
    /\ new.op_type = "Insert"
    /\ new.timestamp - last.timestamp <= MergeWindow
    /\ new.start = last.cursor_after

\* C6: record_operation merges the new operation into the last operation of the
\* open group exactly when both are Insert, the new timestamp is at most 1000 ms
\* after the last one's and the new start equals the last cursor_after;
\* otherwise the open group is finalized onto undo_stack and the new operation
\* opens a new group.
C6_MergeIffRule ==
    [][(result'.call = "record_operation" /\ current_group # <<>>) =>
        LET group == current_group[1]
            last == Last(group.operations)
            new == result'.operation[1]
        IN IF MergeRule(last, new)
           THEN /\ undo_stack' = undo_stack
                /\ current_group' # <<>>
                /\ Len(current_group'[1].operations) = Len(group.operations)
                /\ Last(current_group'[1].operations).obs.id = last.obs.id
                /\ Last(current_group'[1].operations).inserted_text
                      = <<last.inserted_text[1] \o new.inserted_text[1]>>
                /\ Last(current_group'[1].operations).cursor_after = new.cursor_after
           ELSE /\ undo_stack' # <<>>
                /\ Last(undo_stack') = group
                /\ current_group' = <<OperationGroup_new(new)>>]_vars

\* an operation was merged while finalized groups exist
C6_Witness ==
    /\ result.call = "record_operation"
    /\ undo_stack # <<>>
    /\ current_group # <<>>
    /\ Len(Last(current_group[1].operations).obs.parts) = 2

\* C7: after every successful insert, delete or replace the redo stack is empty
\* and redo() fails with RedoHistoryExhausted; undo() and redo() never clear the
\* redo stack: undo() keeps every group on it, redo() takes at most its top.
C7_EditClearsRedo ==
    [][/\ (result'.call \in Edits /\ result'.res = "Ok")
            => /\ redo_stack' = <<>>
               /\ (Buffer_redo.res)' = "RedoHistoryExhausted"
       /\ result'.call = "undo"
            => /\ Len(redo_stack') >= Len(redo_stack)
               /\ SubSeq(redo_stack', 1, Len(redo_stack)) = redo_stack
       /\ result'.call = "redo"
            => /\ Len(redo_stack') >= Len(redo_stack) - 1
               /\ redo_stack' = SubSeq(redo_stack, 1, Len(redo_stack'))]_vars

\* an operation was undone and then another operation was made
C7_Witness ==
    /\ result.call \in Edits
    /\ result.res = "Ok"
    /\ version = 3
    /\ undo_stack = <<>>
    /\ redo_stack = <<>>
    /\ current_group # <<>>
    /\ current_group[1].operations[1].obs.id = 1

\* the identities of the operations a sequence of groups holds, in order
RECURSIVE GroupIds(_)
GroupIds(groups) ==
    IF groups = <<>> THEN <<>>
    ELSE [i \in 1..Len(Head(groups).operations) |-> Head(groups).operations[i].obs.id]
         \o GroupIds(Tail(groups))

\* C8: the open group is no element of undo_stack, every recorded group is held
\* in one place only, and undo_stack followed by the open group is in recording
\* order.
C8_GroupHeldOnce ==
    LET held == GroupIds(undo_stack \o current_group)
        all == held \o GroupIds(redo_stack)
    IN /\ \A i, j \in 1..Len(all) : i # j => all[i] # all[j]
       /\ \A i, j \in 1..Len(held) : i < j => held[i] < held[j]

\* a group was finalized because the next operation could not merge
C8_Witness ==
    /\ result.call = "record_operation"
    /\ Len(undo_stack) = 2
    /\ current_group # <<>>

\* C9: undo_stack.len() <= max_operations in every reachable state.
C9_UndoStackBounded == Len(undo_stack) <= max_operations

\* C10: undo() with an empty undo_stack and no open group fails with
\* UndoHistoryExhausted, redo() with an empty redo_stack fails with
\* RedoHistoryExhausted, and both leave text, Version, dirty flag and the two
\* stacks as they were.
C10_ExhaustedChangesNothing ==
    [][/\ (result'.call = "undo" /\ undo_stack = <<>> /\ current_group = <<>>)
            => /\ result'.res = "UndoHistoryExhausted"
               /\ UNCHANGED <<rope, version, dirty, undo_stack, redo_stack>>
       /\ (result'.call = "redo" /\ redo_stack = <<>>)
            => /\ result'.res = "RedoHistoryExhausted"
               /\ UNCHANGED <<rope, version, dirty, undo_stack, redo_stack>>]_vars

\* undo() failed on a buffer whose only operation had been undone
C10_Witness ==
    /\ result.call = "undo"
    /\ result.res = "UndoHistoryExhausted"
    /\ version = 2
    /\ redo_stack # <<>>

\* pos is a position of the text: a line of the buffer and a column that is at
\* most the number of grapheme clusters of that line
ValidPosition(pos) ==
    /\ pos.line < len_lines(rope)
    /\ pos.column <= Len(graphemes(rope_line(rope, pos.line)))

HistoryUnchanged == UNCHANGED <<undo_stack, current_group, redo_stack>>

\* the state is one in which the model still calls the editing operations
EditCallable == next_id < MaxEdits

\* C11: on a read-only buffer insert, delete and replace, a backspace anywhere
\* but at the document start and a delete_forward anywhere but at the end of the
\* last line fail with BufferError and leave text, Version, dirty flag, undo
\* stack, open group and redo stack as they were.
C11_ReadOnlyRejects ==
    [][(/\ read_only
        /\ \/ result'.call \in Edits
           \/ /\ result'.call = "backspace"
              /\ ValidPosition(result'.pos[1])
              /\ result'.pos[1] # Position_new(0, 0)
           \/ /\ result'.call = "delete_forward"
              /\ ValidPosition(result'.pos[1])
              /\ ~AtEndOfLastLine(result'.pos[1]))
        => /\ result'.res = "BufferError"
           /\ UNCHANGED <<rope, version, dirty>>
           /\ HistoryUnchanged]_vars

\* a backspace was refused on a read-only buffer that was edited and has a
\* group to redo
C11_Witness ==
    /\ read_only
    /\ result.call = "backspace"
    /\ result.res = "BufferError"
    /\ dirty
    /\ redo_stack # <<>>

\* C12: position_to_char_idx, and with it insert, delete and replace, fails
\* with InvalidPosition whenever a position's line is >= len_lines() or its
\* column exceeds the grapheme-cluster count of that line, and the call that
\* fails so leaves text, Version, dirty flag, undo stack, open group and redo
\* stack as they were: in every reachable state, for every such position and
\* every other argument, the outcome of the call is InvalidPosition with the
\* buffer unchanged.
C12_InvalidPositionRejected ==
    \A pos \in Positions : (EditCallable /\ ~ValidPosition(pos)) =>
        /\ position_to_char_idx(rope, pos) = InvalidIdx
        /\ \A text \in InsTexts, d \in Delays :
              Buffer_insert(pos, text, now + d) = Unchanged("InvalidPosition")
        /\ \A other \in Positions :
              /\ Buffer_delete(pos, other, now) = Unchanged("InvalidPosition")
              /\ Buffer_delete(other, pos, now) = Unchanged("InvalidPosition")
              /\ \A text \in InsTexts :
                    /\ Buffer_replace(pos, other, text, now) = Unchanged("InvalidPosition")
                    /\ Buffer_replace(other, pos, text, now) = Unchanged("InvalidPosition")

\* a replace at an untranslatable position was refused while a group waits on
\* the redo stack
C12_Witness ==
    /\ result.call = "replace"
    /\ result.res = "InvalidPosition"
    /\ redo_stack # <<>>
    /\ version = 2

\* the newest operation on the undo side of history h
Newest(h) == Last(Last(h.undo_stack \o h.current_group).operations)

\* the number of operations on the undo side of history h
Recorded(h) == Len(GroupIds(h.undo_stack \o h.current_group))

\* the text without its characters of index from .. to - 1
Without(text, from, to) == SubSeq(text, 1, from) \o SubSeq(text, to + 1, Len(text))

\* out is the outcome of a delete(start, end) that removed the characters of
\* index from .. to - 1 and recorded exactly one Delete operation for it
DeletedRange(out, start, end, from, to) ==
    /\ out.res = "Ok"
    /\ out.rope = Without(rope, from, to)
    /\ out.text = <<SubSeq(rope, from + 1, to)>>
    /\ Recorded(out.h) = Recorded(History) + 1
    /\ out.h.current_group # <<>>
    /\ Len(out.h.current_group[1].operations) = 1
    /\ Newest(out.h).obs.id = next_id
    /\ Newest(out.h).op_type = "Delete"
    /\ Newest(out.h).start = start
    /\ Newest(out.h).end = <<end>>
    /\ Newest(out.h).deleted_text = out.text
    /\ Newest(out.h).inserted_text = <<>>
    /\ Newest(out.h).cursor_after = start

C14_ReplaceAtomic ==
    [][/\ (result'.call = "replace" /\ result'.res = "Ok")
            => /\ Recorded(History') = Recorded(History) + 1
               /\ Newest(History').obs.id = next_id
               /\ Newest(History').op_type = "Replace"
               /\ Newest(History').deleted_text = result'.ret
               /\ Newest(History').inserted_text # <<>>
               /\ version' = version + 1
       /\ (/\ result'.call = "undo"
           /\ OwnGroupOpen
           /\ current_group[1].operations[1].op_type = "Replace")
            => /\ result'.res = "Ok"
               /\ rope' = current_group[1].operations[1].obs.pre]_vars

\* the groups undo() can reach, oldest first: undo_stack, then the open group
UndoSide == undo_stack \o current_group

\* C15: undo() and redo() construct no EditOperation; a successful undo() moves
\* exactly the newest group of the undo side (the open group, else the top of
\* undo_stack) onto redo_stack, a successful redo() moves exactly the top of
\* redo_stack back onto undo_stack, and neither call, successful or not,
\* changes the groups and operations the history holds in total.
C15_ReplayRecordsNothing ==
    [][result'.call \in {"undo", "redo"} =>
        /\ next_id' = next_id
        /\ Len(UndoSide') + Len(redo_stack') = Len(UndoSide) + Len(redo_stack)
        /\ Len(GroupIds(UndoSide' \o redo_stack'))
              = Len(GroupIds(UndoSide \o redo_stack))
        /\ {(UndoSide' \o redo_stack')[i] : i \in 1..Len(UndoSide' \o redo_stack')}
              = {(UndoSide \o redo_stack)[i] : i \in 1..Len(UndoSide \o redo_stack)}
        /\ (result'.call = "undo" /\ result'.res = "Ok")
              => /\ UndoSide # <<>>
                 /\ UndoSide' = SubSeq(UndoSide, 1, Len(UndoSide) - 1)
                 /\ redo_stack' = Append(redo_stack, Last(UndoSide))
        /\ (result'.call = "redo" /\ result'.res = "Ok")
              => /\ redo_stack # <<>>
                 /\ redo_stack' = SubSeq(redo_stack, 1, Len(redo_stack) - 1)
                 /\ UndoSide' = Append(UndoSide, Last(redo_stack))]_vars

\* the newer of two groups was undone and redone
C15_Witness ==
    /\ result.call = "redo"
    /\ result.res = "Ok"
    /\ Len(undo_stack) = 2
    /\ redo_stack = <<>>

\* C16: for every buffer text, every Position p that position_to_char_idx
\* accepts is the Position char_idx_to_position gives for the index of p, and
\* every index i with 0 <= i <= len_chars() is the index position_to_char_idx
\* gives for the Position of i.
C16_RoundTrip ==
    /\ (result.call = "position_to_char_idx" /\ result.ret # <<>>)
          => char_idx_to_position(rope, result.ret[1]) = <<result.arg>>
    /\ (result.call = "char_idx_to_position" /\ result.arg <= len_chars(rope))
          => /\ result.ret # <<>>
             /\ position_to_char_idx(rope, result.ret[1]) = result.arg

\* the part of text after its last line break (all of it when it has none)
AfterLastBreak(text) ==
    LET from == IF Breaks(text) = {} THEN 0
                ELSE CHOOSE i \in Breaks(text) : \A j \in Breaks(text) : j <= i
    IN SubSeq(text, from + 1, Len(text))

\* the grapheme position right after text inserted at pos
PositionAfter(pos, text) ==
    IF Breaks(text) = {}
    THEN Position_new(pos.line, pos.column + Len(graphemes(text)))
    ELSE Position_new(pos.line + Cardinality(Breaks(text)),
                      Len(graphemes(AfterLastBreak(text))))

\* C17: after a successful insert(pos, text) the cursor_after of the recorded
\* Insert operation is the grapheme position right after the inserted text:
\* line = pos.line + the line breaks of text, column = the grapheme count of
\* the part of text after its last line break, plus pos.column when text has
\* no line break.
C17_CursorAfterInsert ==
    [][(result'.call = "insert" /\ result'.res = "Ok") =>
        LET op == Newest(History')
            part == Last(op.obs.parts)
        IN /\ op.op_type = "Insert"
           /\ op.cursor_after = PositionAfter(part.start, part.text)]_vars

\* line l of the text without the line break that ends it
Content(l) == trim_end_matches(rope_line(rope, l))

\* the index of the first character of grapheme cluster number column + 1 of
\* line l (of the end of the line when column is its grapheme count)
ClusterStart(l, column) ==
    line_to_char(rope, l) + SumChars(SubSeq(graphemes(rope_line(rope, l)), 1, column))

AtEndOfLine(pos) == pos.column >= Len(graphemes(Content(pos.line)))

\* C19: delete_forward(pos) at a valid pos returns pos; at the end of a line
\* that has a following line it removes exactly the line break that ends the
\* line; at the end of the last line it leaves text, Version and history as
\* they were; anywhere else it removes exactly the one grapheme cluster
\* following pos.
C19_DeleteForward ==
    [][(result'.call = "delete_forward" /\ ValidPosition(result'.pos[1])) =>
        LET pos == result'.pos[1]
        IN /\ result'.res = "Ok"
           /\ result'.ret = <<pos>>
           /\ IF AtEndOfLine(pos) /\ pos.line + 1 < len_lines(rope)
              THEN rope' = Without(rope,
                                   line_to_char(rope, pos.line) + Len(Content(pos.line)),
                                   line_to_char(rope, pos.line + 1))
              ELSE IF AtEndOfLine(pos)
              THEN /\ UNCHANGED <<rope, version>>
                   /\ HistoryUnchanged
              ELSE rope' = Without(rope, ClusterStart(pos.line, pos.column),
                                   ClusterStart(pos.line, pos.column + 1))]_vars

\* C20: insert(pos, s) at a valid pos followed by delete(pos, e), e being the
\* position of the character index right after the inserted text, succeeds and
\* leaves the buffer text equal to the text before the insertion.
C20_InsertDeleteRestores ==
    [][(result'.call = "delete" /\ result.call = "insert" /\ result.res = "Ok") =>
        /\ result'.res = "Ok"
        /\ rope' = current_group[1].operations[1].obs.pre]_vars

\* every group the history holds: undo_stack, the open group, redo_stack
AllGroups == undo_stack \o current_group \o redo_stack

\* C21: in every reachable state of UndoHistory the timestamp of each
\* OperationGroup, open, on undo_stack or on redo_stack, is the timestamp of
\* its last EditOperation.
C21_GroupTimestamp ==
    \A i \in 1..Len(AllGroups) :
        AllGroups[i].timestamp = Last(AllGroups[i].operations).timestamp

\* C22: after any sequence of add_selection, clear_secondary and
\* merge_overlapping on a SelectionSet the selections list is non-empty and
\* primary < selections.len(); clear_secondary leaves exactly one selection,
\* the one that was primary before the call.
C22_SelectionSetShape ==
    /\ Len(selections) >= 1
    /\ primary < Len(selections)
    /\ result.call = "clear_secondary" => selections = <<result.primary>>

\* clear_secondary was called while the primary was not the first selection
C22_Witness ==
    /\ result.call = "clear_secondary"
    /\ result.index > 0
    /\ Len(selections) = 1

\* do the runs partition the byte range [start, end): contiguous from start
\* to end, none empty or inverted, adjacent levels different, direction
\* LeftToRight iff the level is even
Partitions(runs, start, end) ==
    /\ start = end => runs = <<>>
    /\ start < end =>
           /\ runs # <<>>
           /\ runs[1].logical_range.start = start
           /\ runs[Len(runs)].logical_range.end = end
    /\ \A i \in 1..Len(runs) :
           /\ runs[i].logical_range.start < runs[i].logical_range.end
           /\ (runs[i].direction = "LeftToRight") <=> (runs[i].level % 2 = 0)
           /\ i > 1 =>
                  /\ runs[i].logical_range.start = runs[i - 1].logical_range.end
                  /\ runs[i].level # runs[i - 1].level

\* C23: for every text and every range within it the runs of
\* BidiInfo::visual_runs(range), and of BidiParagraph::visual_runs for the
\* whole text, partition exactly that range.
C23_RunsPartitionRange ==
    (result.call \in {"visual_runs", "paragraph_visual_runs"} /\ result.res = "Ok")
        => Partitions(result.ret, result.arg[1], result.arg[2])

\* the text consists of ASCII left-to-right characters only
AsciiLtr(t) == \A i \in 1..Len(t) : t[i] = "a"

\* C24: for every non-empty string of ASCII left-to-right characters
\* visual_runs returns exactly one run, over the whole text, LeftToRight and
\* of level 0; for the empty string it returns no runs and does not fail.
C24_AsciiOneRun ==
    (/\ result.call \in {"visual_runs", "paragraph_visual_runs"}
     /\ result.arg = <<0, ByteLen(paragraph)>>
     /\ AsciiLtr(paragraph))
        => /\ result.res = "Ok"
           /\ result.ret =
                  IF paragraph = <<>> THEN <<>>
                  ELSE <<[logical_range |-> [start |-> 0, end |-> Len(paragraph)],
                          direction |-> "LeftToRight", level |-> 0]>>

\* the runs of a three-letter ASCII paragraph were asked for
C24_Witness ==
    /\ result.call = "paragraph_visual_runs"
    /\ paragraph = <<"a", "a", "a">>
    /\ Len(result.ret) = 1

\* the latest call was move_visual in one of the given directions
Moved(directions) == result.call = "move_visual" /\ result.arg[2] \in directions

\* C25: move_visual with direction Up or Down returns a ProcessingError for
\* every paragraph, the empty one included, and every logical_pos.
C25_VerticalRejected ==
    Moved({"Up", "Down"}) => result.res = "ProcessingError"

\* the character indices of the grapheme boundaries of t, 0 and Len(t) included
Boundaries(t) ==
    {SumChars(SubSeq(graphemes(t), 1, k)) : k \in 0..Len(graphemes(t))}

Smallest(set) == CHOOSE x \in set : \A y \in set : x <= y
Largest(set) == CHOOSE x \in set : \A y \in set : y <= x

\* C26: move_visual Left or Right on a non-empty text from a grapheme
\* boundary: Right returns the next grapheme boundary, or the end-of-text
\* character index at the end; Left returns the previous boundary, or 0 at
\* the start; the result is a character index 0..=character count.
C26_LeftRightByGrapheme ==
    (/\ Moved({"Left", "Right"})
     /\ paragraph # <<>>
     /\ result.arg[1] \in Boundaries(paragraph))
        => LET pos == result.arg[1]
               next == {b \in Boundaries(paragraph) : b > pos}
               prev == {b \in Boundaries(paragraph) : b < pos}
           IN  /\ result.res = "Ok"
               /\ result.ret \in 0..Len(paragraph)
               /\ result.arg[2] = "Right" =>
                      result.ret = IF next = {} THEN Len(paragraph) ELSE Smallest(next)
               /\ result.arg[2] = "Left" =>
                      result.ret = IF prev = {} THEN 0 ELSE Largest(prev)

\* the line has a character that is not whitespace
HasNonWs(t) == \E i \in 1..Len(t) : ~is_whitespace(t[i])

\* the latest call was Home at a position other than the first
\* non-whitespace character of a line that has one
HomeFromElsewhere ==
    /\ Moved({"Home"})
    /\ HasNonWs(paragraph)
    /\ result.arg[1] # first_non_ws(paragraph)

\* C27: move_visual Home on a non-empty line returns the index of the first
\* non-whitespace character from any other position and 0 from exactly that
\* position, so a second Home press right after a first one made elsewhere
\* ends at column 0.
C27_HomeToggles ==
    [][(result'.call = "move_visual" /\ result'.arg[2] = "Home" /\ HasNonWs(paragraph))
          => /\ result'.res = "Ok"
             /\ result'.ret = IF result'.arg[1] # first_non_ws(paragraph)
                              THEN first_non_ws(paragraph) ELSE 0
             /\ HomeFromElsewhere => logical_pos' = 0]_vars

\* Home was pressed at the first non-whitespace character of an indented line
\* and went to column 0
C27_Witness ==
    /\ Moved({"Home"})
    /\ first_non_ws(paragraph) > 0
    /\ result.arg[1] = first_non_ws(paragraph)
    /\ logical_pos = 0

\* C28: move_visual End returns the line's grapheme length for every text,
\* also where byte length, character count and grapheme count differ.
C28_EndAtGraphemeLength ==
    Moved({"End"}) => (result.res = "Ok" /\ result.ret = Len(graphemes(paragraph)))

\* the 0-based indices of the graphemes of t that are word graphemes
WordGraphemes(t) ==
    {j \in 0..(Len(graphemes(t)) - 1) : is_word_char(graphemes(t)[j + 1])}

\* the character index just after the word run that contains or next follows
\* grapheme gp, or the end of the text
AfterWordRun(t, gp) ==
    LET words == {j \in WordGraphemes(t) : j >= gp}
        first == Smallest(words)
        ends == {k \in (first + 1)..Len(graphemes(t)) : k \notin WordGraphemes(t)}
    IN  IF words = {} THEN Len(t)
        ELSE grapheme_to_char_pos(t, Smallest(ends))

\* the character index of the start of the word run that precedes grapheme
\* gp, or 0
StartOfWordRun(t, gp) ==
    LET words == {j \in WordGraphemes(t) : j < gp}
        last == Largest(words)
        starts == {k \in 0..last : \A j \in k..last : j \in WordGraphemes(t)}
    IN  IF words = {} THEN 0
        ELSE grapheme_to_char_pos(t, Smallest(starts))

\* C29: move_visual WordRight returns the index just after the end of the
\* word run that contains or next follows logical_pos, or the end of the
\* text; WordLeft returns the start of the word run that precedes
\* logical_pos, or 0; WordRight never returns less than logical_pos and
\* WordLeft never more.
C29_WordBoundaries ==
    (/\ Moved({"WordLeft", "WordRight"})
     /\ paragraph # <<>>
     /\ result.arg[1] \in Boundaries(paragraph))
        => LET pos == result.arg[1]
               gp == char_to_grapheme_pos(paragraph, pos)
           IN  /\ result.res = "Ok"
               /\ result.arg[2] = "WordRight" =>
                      /\ result.ret = AfterWordRun(paragraph, gp)
                      /\ result.ret >= pos
               /\ result.arg[2] = "WordLeft" =>
                      /\ result.ret = StartOfWordRun(paragraph, gp)
                      /\ result.ret <= pos

Min(a, b) == IF a < b THEN a ELSE b

\* C30: move_vertical on a non-empty list of lines with current_line inside
\* it: Up from line 0 returns (0,0); Down from the last line returns the last
\* line and its grapheme length; otherwise the result is on the adjacent line
\* with column min(sticky_column if given else current_column, grapheme
\* length of the target line).
C30_MoveVertical ==
    (/\ result.call = "move_vertical"
     /\ result.arg[2] \in {"Up", "Down"})
        => LET from == result.arg[1]
               desired == IF result.arg[3] = <<>> THEN from.column ELSE result.arg[3][1]
               last == Len(lines) - 1
               target == IF result.arg[2] = "Up" THEN from.line - 1 ELSE from.line + 1
           IN  /\ result.res = "Ok"
               /\ result.ret =
                      IF result.arg[2] = "Up" /\ from.line = 0
                      THEN [line |-> 0, column |-> 0]
                      ELSE IF result.arg[2] = "Down" /\ from.line = last
                      THEN [line |-> last, column |-> Len(graphemes(lines[last + 1]))]
                      ELSE [line |-> target,
                            column |-> Min(desired, Len(graphemes(lines[target + 1])))]

\* a Down move with a sticky column onto a line of multi-byte characters
\* that is shorter than the sticky column
C30_Witness ==
    /\ result.call = "move_vertical"
    /\ result.arg[2] = "Down"
    /\ result.arg[3] = <<2>>
    /\ result.ret.line = result.arg[1].line + 1
    /\ lines[result.ret.line + 1] = <<"E">>
    /\ result.ret.column = 1

\* C40: after merge_overlapping the selections are ordered by start and each
\* starts strictly after the previous one ends, and primary designates the
\* merged selection whose range contains the range of the selection that was
\* primary before the call.
C40_MergeKeepsPrimary ==
    result.call = "merge_overlapping" =>
        /\ \A i \in 2..Len(selections) :
               ~Position_le(Selection_range(selections[i])[1],
                            Selection_range(selections[i - 1])[2])
        /\ primary < Len(selections)
        /\ Position_le(Selection_range(selections[primary + 1])[1],
                       Selection_range(result.primary)[1])
        /\ Position_le(Selection_range(result.primary)[2],
                       Selection_range(selections[primary + 1])[2])

\* C35: whenever undo() or redo() returns an error of any kind, the buffer is
\* left as before the call: same text, same Version, same undo_stack and
\* redo_stack.
C35_FailedReplayChangesNothing ==
    [][(result'.call \in {"undo", "redo"} /\ result'.res # "Ok")
          => UNCHANGED <<rope, version, undo_stack, redo_stack>>]_vars

\* the calls of the Buffer API that edit the text or replay the history
Mutators ==
    {"insert", "delete", "replace", "backspace", "delete_forward", "undo", "redo"}

\* C36: while a buffer is read-only no call changes its text, Version or
\* history; undo() and redo() too leave the text unchanged.
C36_ReadOnlyFreezes ==
    [][(read_only /\ result'.call \in Mutators)
          => UNCHANGED <<rope, version, undo_stack, redo_stack, current_group>>]_vars

\* C38: in every reachable buffer state can_undo() is true exactly when an
\* immediately following undo() would succeed, and can_redo() exactly when an
\* immediately following redo() would succeed.
C38_CanUndoMeansUndoSucceeds ==
    /\ can_undo(History) <=> (Buffer_undo.res = "Ok")
    /\ can_redo(History) <=> (Buffer_redo.res = "Ok")

\* the number of operations, merged ones included, that the groups hold
RECURSIVE PartsIn(_)
PartsIn(groups) ==
    IF groups = <<>> THEN 0
    ELSE LET ops == Head(groups).operations
             count[i \in 0..Len(ops)] ==
                 IF i = 0 THEN 0 ELSE count[i - 1] + Len(ops[i].obs.parts)
         IN  count[Len(ops)] + PartsIn(Tail(groups))

\* every operation recorded so far sits on redo_stack: nothing is left to
\* undo and no undone group was dropped
AllUndone ==
    /\ next_id > 0
    /\ undo_stack = <<>>
    /\ current_group = <<>>
    /\ PartsIn(redo_stack) = next_id

\* every operation recorded so far sits on undo_stack
AllRedone ==
    /\ next_id > 0
    /\ redo_stack = <<>>
    /\ current_group = <<>>
    /\ PartsIn(undo_stack) = next_id

\* C34: after successful edits and undo boundaries, undo() repeated until it
\* fails with UndoHistoryExhausted restores the initial text, and redo()
\* repeated until it fails with RedoHistoryExhausted restores the text from
\* before the first undo.
C34_UndoAllRedoAll ==
    /\ (result.call = "undo" /\ result.res = "UndoHistoryExhausted" /\ AllUndone)
           => rope = Last(redo_stack).operations[1].obs.pre
    /\ (result.call = "redo" /\ result.res = "RedoHistoryExhausted" /\ AllRedone)
           => rope = Last(Last(undo_stack).operations).obs.post

\* the insertions as they were recorded, oldest first
RECURSIVE PartsOf(_)
PartsOf(groups) ==
    IF groups = <<>> THEN <<>>
    ELSE LET ops == Head(groups).operations
             parts[i \in 0..Len(ops)] ==
                 IF i = 0 THEN <<>> ELSE parts[i - 1] \o ops[i].obs.parts
         IN  parts[Len(ops)] \o PartsOf(Tail(groups))

\* the insertions of the run recorded more than 1000 ms after the previous one
LongGaps ==
    LET typed == PartsOf(undo_stack \o current_group)
    IN  {i \in 2..Len(typed) : typed[i].timestamp - typed[i - 1].timestamp > MergeWindow}

\* C37: in a run of adjacent insertions each recorded at most 1000 ms after
\* the previous one, all form a single undo step whatever the time between
\* the first and the last; one gap of more than 1000 ms splits the run into
\* exactly two undo steps.
C37_MergeWindowSlides ==
    next_id > 0 =>
        /\ Len(PartsOf(undo_stack \o current_group)) = next_id
        /\ LongGaps = {} =>
               /\ undo_stack = <<>>
               /\ current_group # <<>>
               /\ Len(current_group[1].operations) = 1
        /\ Cardinality(LongGaps) = 1 => Len(undo_stack \o current_group) = 2

\* three insertions form one operation although the last was recorded more
\* than 1000 ms after the first
C37_Witness ==
    /\ undo_stack = <<>>
    /\ current_group # <<>>
    /\ Len(current_group[1].operations) = 1
    /\ Len(current_group[1].operations[1].obs.parts) >= 3
    /\ LET parts == current_group[1].operations[1].obs.parts
       IN  Last(parts).timestamp - parts[1].timestamp > MergeWindow

\* the text is one paragraph: no paragraph separator inside it
OneParagraph(t) == \A i \in 1..Len(t) : BidiClass(t[i]) # "B"

\* C39: an explicit base direction is what base_direction() returns; without
\* one the base direction is LeftToRight iff the first paragraph's level is
\* even; and the levels of the runs are resolved with the base direction: a
\* paragraph reported as RightToLeft has no run below level 1, one reported
\* as LeftToRight has its left-to-right letters at level 0.
C39_BaseDirectionConsistent ==
    /\ (result.call = "new" /\ result.arg # <<>>) => base_direction = result.arg[1]
    /\ (result.call = "new" /\ result.arg = <<>> /\ paragraph # <<>>)
           => (base_direction = "LeftToRight" <=> ParaLevel(paragraph, 1) % 2 = 0)
    /\ (result.call = "paragraph_visual_runs" /\ OneParagraph(paragraph))
           => \A i \in 1..Len(result.ret) :
                  /\ base_direction = "RightToLeft" => result.ret[i].level >= 1
                  /\ (/\ base_direction = "LeftToRight"
                      /\ paragraph[CharOfByte(paragraph,
                                              result.ret[i].logical_range.start)] = "a")
                         => result.ret[i].level = 0


(***************************************************************************)
(* The components of the other crates start from an editor on which no     *)
(* buffer, selection or paragraph operation has been called.               *)
(***************************************************************************)
NoEditor ==
    /\ rope = <<>>
    /\ version = 0
    /\ dirty = FALSE
    /\ read_only = FALSE
    /\ undo_stack = UndoHistory_new.undo_stack
    /\ redo_stack = UndoHistory_new.redo_stack
    /\ current_group = UndoHistory_new.current_group
    /\ max_operations = UndoHistory_new.max_operations
    /\ now = 0
    /\ next_id = 0
    /\ SelectionSet_default /\ NoParagraph /\ NoLines

editorvars == <<bufvars, histvars, now, next_id, selvars, bidivars, linevars>>

(***************************************************************************)
(* WordBoundaryFinder (crates/editor-core/src/buffer/word_boundaries.rs).  *)
(* Positions are indices of grapheme clusters.  The finder is modelled     *)
(* over one more scalar, "-" U+002D, a word character of the finder that   *)
(* is not alphanumeric.                                                    *)
(***************************************************************************)
MaxWordText == 4

WordChars == {"a", "-", " ", "."}

Boundary(position, boundary_type) ==
    [position |-> position, boundary_type |-> boundary_type]

\* WordBoundaryFinder::is_word_char
WordBoundaryFinder_is_word_char(grapheme) ==
    \A i \in 1..Len(grapheme) :
        is_alphanumeric(grapheme[i]) \/ grapheme[i] \in {"_", "'", "-"}

\* grapheme.chars().all(char::is_whitespace)
all_whitespace(grapheme) ==
    \A i \in 1..Len(grapheme) : is_whitespace(grapheme[i])

\* the boundaries the loop of find_boundaries pushes for the graphemes of
\* index i and above, i > 0
RECURSIVE find_boundaries_from(_, _)
find_boundaries_from(gs, i) ==
    IF i >= Len(gs) THEN <<>>
    ELSE LET is_word == WordBoundaryFinder_is_word_char(gs[i + 1])
             is_ws == all_whitespace(gs[i + 1])
             is_punctuation == ~is_word /\ ~is_ws
             prev_was_word == WordBoundaryFinder_is_word_char(gs[i])
             prev_was_whitespace == all_whitespace(gs[i])
             word == IF is_word /\ ~prev_was_word
                     THEN <<Boundary(i, "WordStart")>>
                     ELSE IF ~is_word /\ prev_was_word
                     THEN <<Boundary(i, "WordEnd")>>
                     ELSE <<>>
             space == IF is_ws /\ ~prev_was_whitespace
                      THEN <<Boundary(i, "Whitespace")>>
                      ELSE <<>>
             punct == IF is_punctuation
                      THEN <<Boundary(i, "Punctuation")>>
                      ELSE <<>>
         IN  word \o space \o punct \o find_boundaries_from(gs, i + 1)

\* WordBoundaryFinder::find_boundaries
find_boundaries(gs) ==
    IF gs = <<>> THEN <<>>
    ELSE <<Boundary(0, "WordStart")>>
         \o find_boundaries_from(gs, 1)
         \o <<Boundary(Len(gs),
                       IF WordBoundaryFinder_is_word_char(gs[Len(gs)])
                       THEN "WordEnd" ELSE "Whitespace")>>

\* WordBoundaryFinder::new
WordBoundaryFinder_new(t) ==
    [graphemes |-> graphemes(t), boundaries |-> find_boundaries(graphemes(t))]

Finder == [graphemes |-> finder_graphemes, boundaries |-> finder_boundaries]

\* WordBoundaryFinder::word_start_at: the last WordStart at or before position
word_start_at(f, position) ==
    LET hits == {k \in 1..Len(f.boundaries) :
                    /\ f.boundaries[k].position <= position
                    /\ f.boundaries[k].boundary_type = "WordStart"}
    IN  IF hits = {} THEN 0
        ELSE f.boundaries[CHOOSE k \in hits : \A j \in hits : j <= k].position

\* WordBoundaryFinder::word_end_at: the first WordEnd at or after position
word_end_at(f, position) ==
    LET hits == {k \in 1..Len(f.boundaries) :
                    /\ f.boundaries[k].position >= position
                    /\ f.boundaries[k].boundary_type = "WordEnd"}
    IN  IF hits = {} THEN Len(f.graphemes)
        ELSE f.boundaries[CHOOSE k \in hits : \A j \in hits : k <= j].position

\* [String]::join("")
RECURSIVE join(_)
join(gs) == IF gs = <<>> THEN <<>> ELSE Head(gs) \o join(Tail(gs))

\* WordBoundaryFinder::word_at
word_at(f, position) ==
    LET start == word_start_at(f, position)
        end == word_end_at(f, position)
    IN  IF start < end /\ end <= Len(f.graphemes)
        THEN <<join(SubSeq(f.graphemes, start + 1, end))>>
        ELSE <<>>

WordAt ==
    /\ \E position \in 0..MaxWordText :
          result' = [call |-> "word_at", arg |-> position,
                     ret |-> word_at(Finder, position)]
    /\ UNCHANGED <<editorvars, uivars>>

WordInit ==
    /\ NoEditor /\ ScrollBar_new /\ GlyphCache_new
    /\ \E t \in TextsUpTo(WordChars, MaxWordText) :
          /\ finder_graphemes = WordBoundaryFinder_new(t).graphemes
          /\ finder_boundaries = WordBoundaryFinder_new(t).boundaries
    /\ result = [call |-> "new", arg |-> 0, ret |-> <<>>]

WordNext == WordAt

WordSpec == WordInit /\ [][WordNext]_vars

\* the grapheme of index i is a word character of the finder
WordAtIndex(i) ==
    /\ i >= 0
    /\ i < Len(finder_graphemes)
    /\ WordBoundaryFinder_is_word_char(finder_graphemes[i + 1])

\* the maximal run of word characters around index pos: its first index and
\* the index after its last
RunStart(pos) ==
    CHOOSE a \in 0..pos : /\ \A i \in a..pos : WordAtIndex(i)
                          /\ ~WordAtIndex(a - 1)
RunEnd(pos) ==
    CHOOSE b \in (pos + 1)..Len(finder_graphemes) :
        /\ \A i \in pos..(b - 1) : WordAtIndex(i)
        /\ ~WordAtIndex(b)

WordAtCall == result.call = "word_at"

\* word_at(pos) with pos inside a word returns that maximal run
C31_InsideWord ==
    (WordAtCall /\ WordAtIndex(result.arg))
        => result.ret = <<join(SubSeq(finder_graphemes, RunStart(result.arg) + 1,
                                      RunEnd(result.arg)))>>

\* pos is on a grapheme outside any word with no word next to it
AwayFromWords(pos) ==
    /\ pos < Len(finder_graphemes)
    /\ ~WordAtIndex(pos - 1)
    /\ ~WordAtIndex(pos)
    /\ ~WordAtIndex(pos + 1)

\* C31: word_at(pos) returns the maximal run of word characters around pos
\* when pos lies inside one, returns none when pos lies on whitespace or
\* punctuation with no word next to it (leading whitespace included), and
\* never returns a word that contains a non-word grapheme.
C31_WordAt ==
    WordAtCall =>
        /\ C31_InsideWord
        /\ AwayFromWords(result.arg) => result.ret = <<>>
        /\ result.ret /= <<>> => WordBoundaryFinder_is_word_char(result.ret[1])

(***************************************************************************)
(* ScrollBar (crates/ui-components/src/editor_view/scrollbar.rs).  Its f32 *)
(* lengths are integers here, in tenths of a pixel; the inputs are chosen  *)
(* so that every quotient and product the code computes is a whole number  *)
(* of tenths, and neither infinities nor NaN are passed in.                *)
(***************************************************************************)
\* f32::max and f32::min on finite values
fmax(a, b) == IF a >= b THEN a ELSE b
fmin(a, b) == IF a <= b THEN a ELSE b

\* heights passed to set_dimensions
ScrollHeights == {Px(0), Px(500), Px(1000)}
\* positions passed to set_scroll_position
ScrollTargets == {Px(0 - 100), Px(0), Px(100), Px(10000)}
\* y coordinates passed to on_track_click
ClickYs == {Px(0 - 1000), Px(0), Px(500), Px(1000), Px(2000)}
\* drag distances passed to on_drag
DragDeltas == {Px(0 - 40), Px(40)}
\* line heights passed to on_drag, scroll_up and scroll_down
LineHeights == {Px(20)}

ScrollBar == [content_height |-> content_height,
              viewport_height |-> viewport_height,
              scroll_position |-> scroll_position,
              dragging |-> dragging]

\* ScrollBar::set_dimensions
set_dimensions(sb, ch, vh) ==
    [sb EXCEPT !.content_height = fmax(ch, Px(1)),
               !.viewport_height = fmax(vh, Px(1))]

\* ScrollBar::set_scroll_position
set_scroll_position(sb, position) ==
    LET max_scroll == fmax(sb.content_height - sb.viewport_height, 0)
    IN  [sb EXCEPT !.scroll_position = fmin(fmax(position, 0), max_scroll)]

\* ScrollBar::on_track_click: click_ratio * scrollable_height, exact for the
\* modelled inputs
on_track_click(sb, y) ==
    LET scrollable_height == sb.content_height - sb.viewport_height
    IN  [sb EXCEPT !.scroll_position =
             fmax((y * scrollable_height) \div sb.viewport_height, 0)]

\* ScrollBar::start_drag
start_drag(sb) == [sb EXCEPT !.dragging = TRUE]

\* ScrollBar::stop_drag
stop_drag(sb) == [sb EXCEPT !.dragging = FALSE]

\* ScrollBar::on_drag: delta_y / line_height is a number of lines, added to
\* the position as that number of pixels
on_drag(sb, delta_y, line_height) ==
    IF ~sb.dragging THEN sb
    ELSE LET lines_to_scroll == Px(delta_y) \div line_height
         IN  set_scroll_position(sb, sb.scroll_position + lines_to_scroll)

\* ScrollBar::scroll_up
scroll_up(sb, line_height) ==
    set_scroll_position(sb, sb.scroll_position - line_height)

\* ScrollBar::scroll_down
scroll_down(sb, line_height) ==
    set_scroll_position(sb, sb.scroll_position + line_height)

\* viewport_height * 0.8
PageStep(sb) == (sb.viewport_height * 8) \div 10

\* ScrollBar::scroll_page_up
scroll_page_up(sb) == set_scroll_position(sb, sb.scroll_position - PageStep(sb))

\* ScrollBar::scroll_page_down
scroll_page_down(sb) == set_scroll_position(sb, sb.scroll_position + PageStep(sb))

ScrollApply(call, sb) ==
    /\ content_height' = sb.content_height
    /\ viewport_height' = sb.viewport_height
    /\ scroll_position' = sb.scroll_position
    /\ dragging' = sb.dragging
    /\ result' = [call |-> call]
    /\ UNCHANGED <<editorvars, wordvars, cachevars>>

SetDimensions ==
    \E ch \in ScrollHeights, vh \in ScrollHeights :
        ScrollApply("set_dimensions", set_dimensions(ScrollBar, ch, vh))

SetScrollPosition ==
    \E position \in ScrollTargets :
        ScrollApply("set_scroll_position", set_scroll_position(ScrollBar, position))

OnTrackClick ==
    \E y \in ClickYs : ScrollApply("on_track_click", on_track_click(ScrollBar, y))

StartDrag == ScrollApply("start_drag", start_drag(ScrollBar))

StopDrag == ScrollApply("stop_drag", stop_drag(ScrollBar))

OnDrag ==
    \E delta_y \in DragDeltas, line_height \in LineHeights :
        ScrollApply("on_drag", on_drag(ScrollBar, delta_y, line_height))

ScrollUp ==
    \E line_height \in LineHeights :
        ScrollApply("scroll_up", scroll_up(ScrollBar, line_height))

ScrollDown ==
    \E line_height \in LineHeights :
        ScrollApply("scroll_down", scroll_down(ScrollBar, line_height))

ScrollPageUp == ScrollApply("scroll_page_up", scroll_page_up(ScrollBar))

ScrollPageDown == ScrollApply("scroll_page_down", scroll_page_down(ScrollBar))

ScrollInit ==
    /\ NoEditor /\ NoFinder /\ GlyphCache_new
    /\ ScrollBar_new
    /\ result = [call |-> "new"]

ScrollNext ==
    \/ SetDimensions
    \/ SetScrollPosition
    \/ OnTrackClick
    \/ StartDrag
    \/ StopDrag
    \/ OnDrag
    \/ ScrollUp
    \/ ScrollDown
    \/ ScrollPageUp
    \/ ScrollPageDown

ScrollSpec == ScrollInit /\ [][ScrollNext]_vars

\* C32: after any sequence of ScrollBar operations the scroll position lies
\* between 0 and max(content_height - viewport_height, 0).
C32_ScrollInRange ==
    /\ 0 <= scroll_position
    /\ scroll_position <= fmax(content_height - viewport_height, 0)

(***************************************************************************)
(* GlyphCache (crates/ui-components/src/rendering/glyph_cache.rs).  A      *)
(* cached glyph is represented by its approximate_size().  A call whose    *)
(* loop never terminates has the result "Hang" and is the last call.       *)
(***************************************************************************)
\* std::mem::size_of::<CachedGlyph>() on a 64-bit target: five 4-byte
\* metrics and a Vec<u8>, aligned to 8
SizeOfCachedGlyph == 48

\* CachedGlyph::approximate_size
approximate_size(bitmap_len) == SizeOfCachedGlyph + bitmap_len

\* the GlyphCacheKey values used
GlyphKeys == {"g0", "g1", "g2"}
\* bitmap lengths of the glyphs passed to insert: the stub of get_or_render
\* has an empty bitmap
BitmapLens == {0, 100}
\* max_size passed to with_capacity
Capacities == {100, 1024}
\* percentages passed to evict_lru, as <<numerator, denominator>>
Percentages == {<<0, 1>>, <<1, 5>>, <<1, 2>>, <<1, 1>>}

GlyphCache == [cache |-> cache, max_size |-> max_size,
               current_size |-> current_size, access_order |-> access_order]

\* GlyphCache::with_capacity
with_capacity(capacity) ==
    [cache |-> <<>>, max_size |-> capacity, current_size |-> 0,
     access_order |-> <<>>]

\* HashMap::remove
MapRemove(m, key) == [k \in DOMAIN m \ {key} |-> m[k]]

\* HashMap::insert
MapInsert(m, key, value) ==
    [k \in DOMAIN m \cup {key} |-> IF k = key THEN value ELSE m[k]]

\* one eviction: cache.remove(&oldest_key), current_size -= its size,
\* access_order.remove(0)
EvictOldest(c) ==
    [c EXCEPT !.cache = MapRemove(c.cache, Head(c.access_order)),
              !.current_size = c.current_size - c.cache[Head(c.access_order)],
              !.access_order = Tail(c.access_order)]

\* access_order.first() is a key of the cache
OldestCached(c) ==
    c.access_order /= <<>> /\ Head(c.access_order) \in DOMAIN c.cache

\* the eviction loop of GlyphCache::insert; it makes no progress, and never
\* ends, when access_order is empty or starts with a key that is not cached
RECURSIVE MakeRoom(_, _)
MakeRoom(c, glyph_size) ==
    IF c.current_size + glyph_size > c.max_size /\ DOMAIN c.cache /= {}
    THEN IF OldestCached(c) THEN MakeRoom(EvictOldest(c), glyph_size)
         ELSE [res |-> "Hang", c |-> c]
    ELSE [res |-> "Ok", c |-> c]

\* GlyphCache::insert
GlyphCache_insert(c, key, glyph_size) ==
    LET room == MakeRoom(c, glyph_size)
    IN  IF room.res = "Hang" THEN room
        ELSE [res |-> "Ok",
              c |-> [room.c EXCEPT
                        !.cache = MapInsert(room.c.cache, key, glyph_size),
                        !.current_size = room.c.current_size + glyph_size]]

\* access_order without key, then key pushed
Touch(order, key) ==
    LET Other(k) == k /= key
    IN  Append(SelectSeq(order, Other), key)

\* GlyphCache::get_or_render
get_or_render(c, key) ==
    LET touched == [c EXCEPT !.access_order = Touch(c.access_order, key)]
    IN  IF key \in DOMAIN c.cache THEN [res |-> "Ok", c |-> touched]
        ELSE GlyphCache_insert(touched, key, approximate_size(0))

\* GlyphCache::clear
GlyphCache_clear(c) ==
    [c EXCEPT !.cache = <<>>, !.access_order = <<>>, !.current_size = 0]

\* ((self.cache.len() as f32) * percentage).ceil() as usize
count_to_evict(c, percentage) ==
    (Cardinality(DOMAIN c.cache) * percentage[1] + percentage[2] - 1)
        \div percentage[2]

\* the loop of GlyphCache::evict_lru
RECURSIVE EvictTimes(_, _)
EvictTimes(c, n) ==
    IF n = 0 THEN c
    ELSE EvictTimes(IF OldestCached(c) THEN EvictOldest(c) ELSE c, n - 1)

\* GlyphCache::evict_lru
evict_lru(c, percentage) == EvictTimes(c, count_to_evict(c, percentage))

CacheApply(call, arg, out) ==
    /\ result.res /= "Hang"
    /\ cache' = out.c.cache
    /\ max_size' = out.c.max_size
    /\ current_size' = out.c.current_size
    /\ access_order' = out.c.access_order
    /\ result' = [call |-> call, res |-> out.res, arg |-> arg]
    /\ UNCHANGED <<editorvars, wordvars, scrollvars>>

GetOrRender ==
    \E key \in GlyphKeys :
        CacheApply("get_or_render", <<key>>, get_or_render(GlyphCache, key))

InsertGlyph ==
    \E key \in GlyphKeys, len \in BitmapLens :
        CacheApply("insert", <<key, len>>,
                   GlyphCache_insert(GlyphCache, key, approximate_size(len)))

ClearCache ==
    CacheApply("clear", <<>>, [res |-> "Ok", c |-> GlyphCache_clear(GlyphCache)])

EvictLru ==
    \E percentage \in Percentages :
        CacheApply("evict_lru", percentage,
                   [res |-> "Ok", c |-> evict_lru(GlyphCache, percentage)])

CacheInit ==
    /\ NoEditor /\ NoFinder /\ ScrollBar_new
    /\ \E capacity \in Capacities :
          /\ cache = with_capacity(capacity).cache
          /\ max_size = with_capacity(capacity).max_size
          /\ current_size = with_capacity(capacity).current_size
          /\ access_order = with_capacity(capacity).access_order
    /\ result = [call |-> "with_capacity", res |-> "Ok", arg |-> <<>>]

CacheNext ==
    \/ GetOrRender
    \/ InsertGlyph
    \/ ClearCache
    \/ EvictLru

CacheSpec == CacheInit /\ [][CacheNext]_vars

RECURSIVE SumSizes(_, _)
SumSizes(m, keys) ==
    IF keys = {} THEN 0
    ELSE LET k == CHOOSE x \in keys : TRUE
         IN  m[k] + SumSizes(m, keys \ {k})

\* the keys a step removes from the cache
Evicted == DOMAIN cache \ DOMAIN cache'

\* the first n keys of access_order
OldestKeys(n) == {access_order[i] : i \in 1..fmin(n, Len(access_order))}

\* a step that is a call of evict_lru(p) with p > 0 on a cache that holds a
\* glyph
EvictLruCall ==
    /\ result'.call = "evict_lru"
    /\ result'.arg[1] > 0
    /\ DOMAIN cache /= {}

\* what C33 says of one call of evict_lru
EvictLruReduces ==
    /\ Cardinality(DOMAIN cache') < Cardinality(DOMAIN cache)
    /\ Evicted = OldestKeys(Cardinality(Evicted))
    /\ current_size' = current_size - SumSizes(cache, Evicted)

\* C33: evict_lru(p) with p > 0 on a cache that holds at least one glyph
\* strictly reduces the number of cached entries, removes the least recently
\* used entries first and decreases current_size by their sizes, however the
\* entries got into the cache (insert or get_or_render).
C33_EvictLruReduces == [][EvictLruCall => EvictLruReduces]_vars
====
